---- MODULE Spec2Model ----
(***************************************************************************)
(* A model of the criativos-api search service: the /search handler of     *)
(* main.py, the Playwright acquisition of scraper.py that feeds it, the    *)
(* record builder and batch loop of both browser backends (scraper.py,     *)
(* scraper_selenium.py), and the pure helpers of utils.py the result       *)
(* pipeline is built from.                                                 *)
(*                                                                         *)
(* Conventions.                                                            *)
(*   - A Python string is a sequence of one-character strings, so that     *)
(*     lower(), strip() and the `in` substring test are computed.          *)
(*   - An Optional value is a sequence of length at most one: None is <<>> *)
(*     and a present value v is <<v>>.                                     *)
(*   - A score is kept in hundredths (3.95 is 395): compute_score rounds   *)
(*     to two decimals, so every score is a whole number of hundredths.    *)
(***************************************************************************)
EXTENDS Integers, Sequences, FiniteSets, TLC

VARIABLES
    USE_SELENIUM_FALLBACK, \* main.py configuration flag read from the environment
    request,               \* the SearchRequest being handled
    pc,                    \* position of the /search handler
    browser,               \* the Playwright browser: "none", "open" or "closed"
    captcha_seen,          \* history: where the acquisition met a CAPTCHA ("no" if nowhere)
    acq_error,             \* history: a lower-level acquisition error was raised
    fragments,             \* number of ad containers found on the page
    frag_i,                \* index of the next container scrape_ads processes
    ads_data,              \* scrape_ads's list of built records
    results,               \* what the acquisition returned to search_ads
    pipeline_in,           \* history: the records as they entered the result pipeline
    response,              \* the HTTP response of /search
    backend_calls,         \* how many times an acquisition backend was invoked
    rerun,                 \* the pipeline applied to its own output
    score_args,            \* arguments of a direct compute_score call
    score_ret,             \* its return value
    call_args,             \* inputs of a direct call of one function: its arguments, or the
                           \* page a scraper method reads
    call_ret,              \* the values the function, or the calls it made, returned, in order
    nav_attempts,          \* history: how each run of navigate_to_ads_library's body ended
    playwright,            \* the Playwright driver: "none", "started" or "stopped"
    pages,                 \* the pages or windows advertiser lookups left open
    heap,                  \* the AdData objects alive in the server process, by identity
    tasks                  \* the /search requests the event loop is running together

vars == << USE_SELENIUM_FALLBACK, request, pc, browser, captcha_seen, acq_error,
           fragments, frag_i, ads_data, results, pipeline_in, response,
           backend_calls, rerun, score_args, score_ret, call_args, call_ret,
           nav_attempts, playwright, pages, heap, tasks >>

-----------------------------------------------------------------------------
(* Python values *)

None == <<>>
Some(v) == <<v>>
IsNone(x) == x = <<>>
Value(x) == x[1]

\* Truthiness of an Optional[int]: None and 0 are falsy.
TruthyInt(x) == ~IsNone(x) /\ Value(x) # 0
\* Truthiness of an Optional[str]: None and "" are falsy.
TruthyStr(x) == ~IsNone(x) /\ Value(x) # <<>>

UpperCase == <<"A","B","C","D","E","F","G","H","I","J","K","L","M",
               "N","O","P","Q","R","S","T","U","V","W","X","Y","Z">>
LowerCase == <<"a","b","c","d","e","f","g","h","i","j","k","l","m",
               "n","o","p","q","r","s","t","u","v","w","x","y","z">>

ToLower ==
    [c \in {UpperCase[i] : i \in 1..Len(UpperCase)} |->
        LowerCase[CHOOSE i \in 1..Len(UpperCase) : UpperCase[i] = c]]

LowerChar(c) == IF c \in DOMAIN ToLower THEN ToLower[c] ELSE c

\* str.lower()
Lower(s) == [i \in 1..Len(s) |-> LowerChar(s[i])]

\* the `sub in s` test on strings
Contains(s, sub) ==
    \/ sub = << >>
    \/ \E i \in 1..(Len(s) - Len(sub) + 1) :
          s[i] = sub[1] /\ SubSeq(s, i, i + Len(sub) - 1) = sub

Whitespace == {" ", "\t", "\n", "\r"}

\* str.strip()
RECURSIVE LStrip(_)
LStrip(s) == IF s # <<>> /\ Head(s) \in Whitespace THEN LStrip(Tail(s)) ELSE s
RECURSIVE RStrip(_)
RStrip(s) ==
    IF s # <<>> /\ s[Len(s)] \in Whitespace THEN RStrip(SubSeq(s, 1, Len(s) - 1)) ELSE s
Strip(s) == RStrip(LStrip(s))

-----------------------------------------------------------------------------
(* utils.py *)

Min(a, b) == IF a < b THEN a ELSE b
Max(a, b) == IF a > b THEN a ELSE b

\* clamp without its upper limit (a fault C10 must detect).
clampUnbounded(value, min_val, max_val) == Max(min_val, value)
clamp(value, min_val, max_val) == Max(min_val, Min(value, max_val))

\* math.tanh(V / 5.0) in millionths, rounded down, for V = 1 .. 40; beyond 40
\* tanh(V / 5.0) exceeds 0.9999997 and is taken as 1.
TanhTable ==
    << 197375, 379948, 537049, 664036, 761594, 833654, 885351, 921668, 946806, 964027,
       975743, 983674, 989027, 992631, 995054, 996682, 997774, 998507, 998999, 999329,
       999550, 999698, 999797, 999864, 999909, 999939, 999959, 999972, 999981, 999987,
       999991, 999994, 999996, 999997, 999998, 999998, 999999, 999999, 999999, 999999 >>

safe_tanh(V) == IF V <= Len(TanhTable) THEN TanhTable[V] ELSE 1000000

\* round(x, 2) of a value given in 1/500 of a hundredth; the result is in hundredths.
Round2(x) == IF 2 * (x % 500) >= 500 THEN (x \div 500) + 1 ELSE x \div 500

\* `x or d` on an Optional[int]
OrInt(x, d) == IF TruthyInt(x) THEN Value(x) ELSE d

\* score = 100 * (0.5*(A/50) + 0.3*(D/60) + 0.2*tanh(V/5)) = A + D/2 + 20*tanh(V/5);
\* in hundredths that is 100*A + 50*D + 2000*tanh(V/5).
\* compute_score with days_active clamped at 50 instead of 60 (a fault C9 must detect).
compute_score_days50(advertiser_active_ads_est, days_active, variations_count) ==
    LET A == clamp(OrInt(advertiser_active_ads_est, 0), 0, 50)
        D == clamp(OrInt(days_active, 0), 0, 50)
        V == Max(1, OrInt(variations_count, 1))
    IN  Round2((100 * A + 50 * D) * 500 + safe_tanh(V))

\* compute_score with the days_active term subtracted (a fault C11 must detect).
compute_score_minus_days(advertiser_active_ads_est, days_active, variations_count) ==
    LET A == clamp(OrInt(advertiser_active_ads_est, 0), 0, 50)
        D == clamp(OrInt(days_active, 0), 0, 60)
        V == Max(1, OrInt(variations_count, 1))
    IN  Round2((100 * A - 50 * D + 6000) * 500 + safe_tanh(V))

compute_score(advertiser_active_ads_est, days_active, variations_count) ==
    LET A == clamp(OrInt(advertiser_active_ads_est, 0), 0, 50)
        D == clamp(OrInt(days_active, 0), 0, 60)
        V == Max(1, OrInt(variations_count, 1))
    IN  Round2((100 * A + 50 * D) * 500 + safe_tanh(V))

Digit == <<"0","1","2","3","4","5","6","7","8","9">>

DigitValue ==
    [c \in {Digit[i] : i \in 1..Len(Digit)} |->
        (CHOOSE i \in 1..Len(Digit) : Digit[i] = c) - 1]

IsDigit(c) == c \in DOMAIN DigitValue

\* int() of a string of decimal digits
RECURSIVE ToInt(_)
ToInt(s) ==
    IF s = << >> THEN 0
    ELSE 10 * ToInt(SubSeq(s, 1, Len(s) - 1)) + DigitValue[s[Len(s)]]

\* datetime.date: a date is << year, month, day >>.
IsLeap(y) == y % 4 = 0 /\ (y % 100 # 0 \/ y % 400 = 0)

DaysInMonth(y, m) ==
    IF m = 2 THEN (IF IsLeap(y) THEN 29 ELSE 28)
    ELSE IF m \in {4, 6, 9, 11} THEN 30 ELSE 31

\* The triples date(y, m, d) accepts; any other raises ValueError.
ValidDate(y, m, d) == y \in 1..9999 /\ m \in 1..12 /\ d \in 1..DaysInMonth(y, m)

DaysBeforeYear(y) ==
    LET p == y - 1 IN p * 365 + (p \div 4) - (p \div 100) + (p \div 400)

RECURSIVE DaysBeforeMonth(_, _)
DaysBeforeMonth(y, m) ==
    IF m = 1 THEN 0 ELSE DaysBeforeMonth(y, m - 1) + DaysInMonth(y, m - 1)

\* date.toordinal(); (a - b).days is toordinal(a) - toordinal(b)
toordinal(dt) == DaysBeforeYear(dt[1]) + DaysBeforeMonth(dt[1], dt[2]) + dt[3]

\* datetime.strptime(s, '%Y-%m-%d').date(): the date, or << >> where it raises.
\* The format compiles to (\d\d\d\d)-(1[0-2]|0[1-9]|[1-9])-(3[01]|[12]\d|0[1-9]|[1-9]| [1-9]),
\* matched at the start of s and required to consume all of s.
strptime(s) ==
    LET n == Len(s)
        At(i) == IF i <= n THEN s[i] ELSE ""
        NonZero(c) == IsDigit(c) /\ c # "0"
        mlen == IF \/ At(6) = "1" /\ At(7) \in {"0", "1", "2"}
                   \/ At(6) = "0" /\ NonZero(At(7))
                THEN 2
                ELSE IF NonZero(At(6)) THEN 1 ELSE 0
        dpos == 7 + mlen
        dlen == IF \/ At(dpos) = "3" /\ At(dpos + 1) \in {"0", "1"}
                   \/ At(dpos) \in {"1", "2"} /\ IsDigit(At(dpos + 1))
                   \/ At(dpos) = "0" /\ NonZero(At(dpos + 1))
                THEN 2
                ELSE IF NonZero(At(dpos)) THEN 1
                ELSE IF At(dpos) = " " /\ NonZero(At(dpos + 1)) THEN 2 ELSE 0
        matched == /\ \A i \in 1..4 : IsDigit(At(i))
                   /\ At(5) = "-"
                   /\ mlen > 0
                   /\ At(6 + mlen) = "-"
                   /\ dlen > 0
                   /\ dpos + dlen - 1 = n
        year == ToInt(SubSeq(s, 1, 4))
        month == ToInt(SubSeq(s, 6, 5 + mlen))
        day == ToInt(SelectSeq(SubSeq(s, dpos, n), IsDigit))
    IN  IF matched /\ ValidDate(year, month, day) THEN << year, month, day >> ELSE << >>

\* days_between returning the signed difference (a fault C12 must detect).
days_between_signed(date_str, today) ==
    IF ~TruthyStr(date_str) THEN 0
    ELSE LET start_date == strptime(Value(date_str))
         IN  IF start_date = << >> THEN 0
             ELSE toordinal(today) - toordinal(start_date)

days_between(date_str, today) ==
    IF ~TruthyStr(date_str) THEN 0
    ELSE LET start_date == strptime(Value(date_str))
         IN  IF start_date = << >> THEN 0
             ELSE Max(0, toordinal(today) - toordinal(start_date))

\* Stand-ins for two characters a TLA+ string cannot spell: U+0001 and U+007F. Both
\* are control characters and neither is whitespace.
SOH == "<U+0001>"
DEL == "<U+007F>"

\* The characters of [\x00-\x1f\x7f-\x9f] among those the model uses.
ControlChars == { SOH, DEL, "\t", "\n", "\r" }

\* re.sub(r'\s+', ' ', s)
RECURSIVE CollapseWhitespace(_)
CollapseWhitespace(s) ==
    IF s = << >> THEN << >>
    ELSE IF Head(s) \in Whitespace THEN << " " >> \o CollapseWhitespace(LStrip(s))
    ELSE << Head(s) >> \o CollapseWhitespace(Tail(s))

IsPrintable(c) == c \notin ControlChars

\* re.sub(r'[\x00-\x1f\x7f-\x9f]', '', s)
RemoveControl(s) == SelectSeq(s, IsPrintable)

normalize_text(text) ==
    IF ~TruthyStr(text) THEN << >>
    ELSE RemoveControl(CollapseWhitespace(Strip(Value(text))))

prefixes_to_remove ==
    << <<"A","n","ú","n","c","i","o">>,
       <<"A","d",":">>,
       <<"S","p","o","n","s","o","r","e","d",":">>,
       <<"P","a","t","r","o","c","i","n","a","d","o",":">> >>

\* str.startswith
StartsWith(s, prefix) ==
    Len(s) >= Len(prefix) /\ SubSeq(s, 1, Len(prefix)) = prefix

\* One turn of clean_headline's loop: headline[len(prefix):].strip() when the headline
\* starts with the prefix.
RemovePrefix(headline, prefix) ==
    IF StartsWith(headline, prefix)
    THEN Strip(SubSeq(headline, Len(prefix) + 1, Len(headline)))
    ELSE headline

\* The loop over the prefixes breaking at the first one it removes
\* (a fault C15 must detect).
RECURSIVE RemoveFirstPrefix(_, _)
RemoveFirstPrefix(headline, prefixes) ==
    IF prefixes = << >> THEN headline
    ELSE IF StartsWith(headline, Head(prefixes)) THEN RemovePrefix(headline, Head(prefixes))
    ELSE RemoveFirstPrefix(headline, Tail(prefixes))

\* The loop over the prefixes: every prefix is tested, in list order, against what
\* the turns before it left.
RECURSIVE RemovePrefixes(_, _)
RemovePrefixes(headline, prefixes) ==
    IF prefixes = << >> THEN headline
    ELSE RemovePrefixes(RemovePrefix(headline, Head(prefixes)), Tail(prefixes))

\* clean_headline leaving its loop after the first removal (a fault C15 must detect).
clean_headline_first_only(headline) ==
    IF ~TruthyStr(headline) THEN << >>
    ELSE normalize_text(Some(RemoveFirstPrefix(Value(headline), prefixes_to_remove)))

clean_headline(headline) ==
    IF ~TruthyStr(headline) THEN << >>
    ELSE normalize_text(Some(RemovePrefixes(Value(headline), prefixes_to_remove)))

\* s[i .. i + len(w) - 1] == w
StartsWithAt(s, i, w) ==
    i + Len(w) - 1 <= Len(s) /\ SubSeq(s, i, i + Len(w) - 1) = w

\* The index after the longest run of characters of class that starts at index i
\* (i itself when s[i] is not in class): where a greedy \d+, \s+ or \s* ends.
AfterRun(s, i, class) ==
    CHOOSE j \in i..(Len(s) + 1) :
        /\ \A k \in i..(j - 1) : s[k] \in class
        /\ j = Len(s) + 1 \/ s[j] \notin class

Digits == DOMAIN DigitValue

LeastOf(S) == CHOOSE i \in S : \A j \in S : i <= j

\* re.search(r'(\d+)\s*(w1|w2|...)', s): group 1 of the leftmost match, or None.
\* A match starts at a digit and takes the whole run of digits from there, since the
\* character after group 1 is whitespace or the first letter of a word.
SearchCountBefore(s, words) ==
    LET starts == { i \in 1..Len(s) :
                      /\ s[i] \in Digits
                      /\ \E w \in words :
                            StartsWithAt(s, AfterRun(s, AfterRun(s, i, Digits), Whitespace), w) }
    IN  IF starts = {} THEN None
        ELSE Some(SubSeq(s, LeastOf(starts), AfterRun(s, LeastOf(starts), Digits) - 1))

disponivel == <<"d","i","s","p","o","n","í","v","e","l">>
em == <<"e","m">>

\* The index of the first digit of group 1 when r'disponível\s+em\s+(\d+)' matches at
\* index i, else 0.
AvailableInAt(s, i) ==
    LET a == i + Len(disponivel)
        b == AfterRun(s, a, Whitespace)
        c == AfterRun(s, b + Len(em), Whitespace)
    IN  IF /\ StartsWithAt(s, i, disponivel)
           /\ b > a
           /\ StartsWithAt(s, b, em)
           /\ c > b + Len(em)
           /\ c <= Len(s) /\ s[c] \in Digits
        THEN c ELSE 0

\* re.search(r'disponível\s+em\s+(\d+)', s): group 1 of the leftmost match, or None.
SearchAvailableIn(s) ==
    LET starts == { i \in 1..Len(s) : AvailableInAt(s, i) > 0 }
    IN  IF starts = {} THEN None
        ELSE LET c == AvailableInAt(s, LeastOf(starts))
             IN  Some(SubSeq(s, c, AfterRun(s, c, Digits) - 1))

versoes == <<"v","e","r","s","õ","e","s">>
variacoes == <<"v","a","r","i","a","ç","õ","e","s">>
opcoes == <<"o","p","ç","õ","e","s">>
cores == <<"c","o","r","e","s">>
tamanhos == <<"t","a","m","a","n","h","o","s">>

\* What each pattern of variation_indicators captures in s, in list order.
variation_indicators(s) ==
    << SearchCountBefore(s, { versoes, variacoes, opcoes }),
       SearchAvailableIn(s),
       SearchCountBefore(s, { cores }),
       SearchCountBefore(s, { tamanhos }) >>

\* The patterns with 'N tamanhos' tried before 'N cores' (a fault C17 must detect).
variation_indicators_sizes_first(s) ==
    << SearchCountBefore(s, { versoes, variacoes, opcoes }),
       SearchAvailableIn(s),
       SearchCountBefore(s, { tamanhos }),
       SearchCountBefore(s, { cores }) >>

\* The loop over the patterns: min(int(group 1), 20) of the first one that matches,
\* else 1. (int() of a run of digits never raises.)
RECURSIVE FirstCount(_)
FirstCount(matches) ==
    IF matches = << >> THEN 1
    ELSE IF Head(matches) # None THEN Min(ToInt(Value(Head(matches))), 20)
    ELSE FirstCount(Tail(matches))

\* estimate_variations_from_text with the patterns in another order
\* (a fault C17 must detect).
estimate_variations_sizes_first(text) ==
    IF ~TruthyStr(text) THEN 1
    ELSE FirstCount(variation_indicators_sizes_first(Lower(Value(text))))

estimate_variations_from_text(text) ==
    IF ~TruthyStr(text) THEN 1
    ELSE FirstCount(variation_indicators(Lower(Value(text))))

\* The characters \w matches among those the model uses.
WordChars ==
    { LowerCase[i] : i \in 1..Len(LowerCase) } \cup { UpperCase[i] : i \in 1..Len(UpperCase) }
      \cup Digits \cup { "_", "ç", "á", "ã", "é", "í", "ó", "ú" }

CharAt(s, i) == IF i \in 1..Len(s) THEN s[i] ELSE ""

DigitsAt(s, i, n) == i + n - 1 <= Len(s) /\ \A k \in i..(i + n - 1) : s[k] \in Digits

\* How many digits a greedy \d{1,2} takes at index i when the pattern goes on with a
\* character of stops: 2, else 1, else 0 for no match.
DigitsBefore(s, i, stops) ==
    IF DigitsAt(s, i, 2) /\ CharAt(s, i + 2) \in stops THEN 2
    ELSE IF DigitsAt(s, i, 1) /\ CharAt(s, i + 1) \in stops THEN 1
    ELSE 0

\* The groups of r'(\d{1,2})/(\d{1,2})/(\d{4})' matched at index i, or << >>.
MatchSlashDateAt(s, i) ==
    LET a == DigitsBefore(s, i, { "/" })
        j == i + a + 1
        b == DigitsBefore(s, j, { "/" })
        k == j + b + 1
    IN  IF a > 0 /\ b > 0 /\ DigitsAt(s, k, 4)
        THEN << SubSeq(s, i, i + a - 1), SubSeq(s, j, j + b - 1), SubSeq(s, k, k + 3) >>
        ELSE << >>

\* The groups of r'(\d{4})-(\d{1,2})-(\d{1,2})' matched at index i, or << >>.
MatchIsoDateAt(s, i) ==
    LET a == DigitsBefore(s, i + 5, { "-" })
        j == i + 5 + a + 1
        b == IF DigitsAt(s, j, 2) THEN 2 ELSE IF DigitsAt(s, j, 1) THEN 1 ELSE 0
    IN  IF DigitsAt(s, i, 4) /\ CharAt(s, i + 4) = "-" /\ a > 0 /\ b > 0
        THEN << SubSeq(s, i, i + 3), SubSeq(s, i + 5, i + 4 + a), SubSeq(s, j, j + b - 1) >>
        ELSE << >>

de == <<"d","e">>

\* The groups of r'(\d{1,2})\s+de\s+(\w+)\s+de\s+(\d{4})' matched at index i, or << >>.
MatchDayDeMonthDeYearAt(s, i) ==
    LET a == DigitsBefore(s, i, Whitespace)
        d1 == AfterRun(s, i + a, Whitespace)
        m == AfterRun(s, d1 + Len(de), Whitespace)
        mend == AfterRun(s, m, WordChars)
        d2 == AfterRun(s, mend, Whitespace)
        y == AfterRun(s, d2 + Len(de), Whitespace)
    IN  IF /\ a > 0
           /\ StartsWithAt(s, d1, de)
           /\ m > d1 + Len(de)
           /\ mend > m
           /\ d2 > mend
           /\ StartsWithAt(s, d2, de)
           /\ y > d2 + Len(de)
           /\ DigitsAt(s, y, 4)
        THEN << SubSeq(s, i, i + a - 1), SubSeq(s, m, mend - 1), SubSeq(s, y, y + 3) >>
        ELSE << >>

\* Where group 3 starts when r',?\s+(\d{4})' matches at index p, else 0.
CommaYearAt(s, p) ==
    LET q == IF CharAt(s, p) = "," THEN p + 1 ELSE p
        y == AfterRun(s, q, Whitespace)
    IN  IF y > q /\ DigitsAt(s, y, 4) THEN y ELSE 0

\* The groups of r'(\w+)\s+(\d{1,2}),?\s+(\d{4})' matched at index i, or << >>.
MatchMonthDayYearAt(s, i) ==
    LET wend == AfterRun(s, i, WordChars)
        d == AfterRun(s, wend, Whitespace)
        a == IF DigitsAt(s, d, 2) /\ CommaYearAt(s, d + 2) > 0 THEN 2
             ELSE IF DigitsAt(s, d, 1) /\ CommaYearAt(s, d + 1) > 0 THEN 1
             ELSE 0
        y == CommaYearAt(s, d + a)
    IN  IF wend > i /\ d > wend /\ a > 0
        THEN << SubSeq(s, i, wend - 1), SubSeq(s, d, d + a - 1), SubSeq(s, y, y + 3) >>
        ELSE << >>

\* The groups of r'(\d{1,2})\s+(\w+)\s+(\d{4})' matched at index i, or << >>.
MatchDayMonthYearAt(s, i) ==
    LET a == DigitsBefore(s, i, Whitespace)
        m == AfterRun(s, i + a, Whitespace)
        mend == AfterRun(s, m, WordChars)
        y == AfterRun(s, mend, Whitespace)
    IN  IF a > 0 /\ mend > m /\ y > mend /\ DigitsAt(s, y, 4)
        THEN << SubSeq(s, i, i + a - 1), SubSeq(s, m, mend - 1), SubSeq(s, y, y + 3) >>
        ELSE << >>

\* re.search: the groups of the leftmost match, or << >>, given for every index the
\* groups of the pattern matched there.
Search(groups_at) ==
    LET starts == { i \in DOMAIN groups_at : groups_at[i] # << >> }
    IN  IF starts = {} THEN << >> ELSE groups_at[LeastOf(starts)]

meses_pt ==
    << << <<"j","a","n","e","i","r","o">>, <<"0","1">> >>,
       << <<"j","a","n">>, <<"0","1">> >>,
       << <<"f","e","v","e","r","e","i","r","o">>, <<"0","2">> >>,
       << <<"f","e","v">>, <<"0","2">> >>,
       << <<"m","a","r","ç","o">>, <<"0","3">> >>,
       << <<"m","a","r">>, <<"0","3">> >>,
       << <<"a","b","r","i","l">>, <<"0","4">> >>,
       << <<"a","b","r">>, <<"0","4">> >>,
       << <<"m","a","i","o">>, <<"0","5">> >>,
       << <<"m","a","i">>, <<"0","5">> >>,
       << <<"j","u","n","h","o">>, <<"0","6">> >>,
       << <<"j","u","n">>, <<"0","6">> >>,
       << <<"j","u","l","h","o">>, <<"0","7">> >>,
       << <<"j","u","l">>, <<"0","7">> >>,
       << <<"a","g","o","s","t","o">>, <<"0","8">> >>,
       << <<"a","g","o">>, <<"0","8">> >>,
       << <<"s","e","t","e","m","b","r","o">>, <<"0","9">> >>,
       << <<"s","e","t">>, <<"0","9">> >>,
       << <<"o","u","t","u","b","r","o">>, <<"1","0">> >>,
       << <<"o","u","t">>, <<"1","0">> >>,
       << <<"n","o","v","e","m","b","r","o">>, <<"1","1">> >>,
       << <<"n","o","v">>, <<"1","1">> >>,
       << <<"d","e","z","e","m","b","r","o">>, <<"1","2">> >>,
       << <<"d","e","z">>, <<"1","2">> >> >>

\* meses_pt.get(month_name, '01')
MesesGet(month_name) ==
    IF \E k \in 1..Len(meses_pt) : meses_pt[k][1] = month_name
    THEN meses_pt[CHOOSE k \in 1..Len(meses_pt) : meses_pt[k][1] = month_name][2]
    ELSE <<"0","1">>

\* str.zfill(2)
zfill2(s) == IF Len(s) = 0 THEN <<"0","0">> ELSE IF Len(s) = 1 THEN <<"0">> \o s ELSE s

\* f"{year}-{month.zfill(2)}-{day.zfill(2)}"
FormatFields(year, month, day) == year \o <<"-">> \o zfill2(month) \o <<"-">> \o zfill2(day)

\* The loop over patterns: the first pattern found in s decides; nothing is checked
\* about the numbers it captured.
RegexFallback(s) ==
    LET p0 == Search([i \in 1..Len(s) |-> MatchSlashDateAt(s, i)])
        p1 == Search([i \in 1..Len(s) |-> MatchIsoDateAt(s, i)])
        p2 == Search([i \in 1..Len(s) |-> MatchDayDeMonthDeYearAt(s, i)])
        p3 == Search([i \in 1..Len(s) |-> MatchMonthDayYearAt(s, i)])
        p4 == Search([i \in 1..Len(s) |-> MatchDayMonthYearAt(s, i)])
    IN  IF p0 # << >> THEN Some(FormatFields(p0[3], p0[2], p0[1]))
        ELSE IF p1 # << >> THEN Some(FormatFields(p1[1], p1[2], p1[3]))
        ELSE IF p2 # << >> THEN Some(FormatFields(p2[3], MesesGet(Lower(p2[2])), p2[1]))
        ELSE IF p3 # << >> THEN Some(FormatFields(p3[3], MesesGet(Lower(p3[1])), p3[2]))
        ELSE IF p4 # << >> THEN Some(FormatFields(p4[3], MesesGet(Lower(p4[2])), p4[1]))
        ELSE None

\* The runs of digits of s from index i on, in order.
RECURSIVE DigitRuns(_, _)
DigitRuns(s, i) ==
    IF i > Len(s) THEN << >>
    ELSE IF s[i] \in Digits
         THEN << SubSeq(s, i, AfterRun(s, i, Digits) - 1) >> \o DigitRuns(s, AfterRun(s, i, Digits))
         ELSE DigitRuns(s, i + 1)

\* dateutil's reading of a year written with one or two digits: the year of that
\* ending within fifty years of the current one.
convertyear(year, this_year) ==
    LET y == year + (this_year \div 100) * 100
    IN  IF y >= this_year + 50 THEN y - 100
        ELSE IF y < this_year - 50 THEN y + 100
        ELSE y

\* dateutil.parser.parse(text, fuzzy=True, dayfirst=True) called on the day today:
\* the date, or << >> where it raises. This is the library's behaviour on texts whose
\* numbers have one, two or four digits and whose words are none of its own (English
\* month and weekday names, am/pm, time zones): the words are skipped, the numbers
\* are dealt out to year, month and day by their values, and whatever is missing is
\* taken from today (the day limited to the length of the month).
dateutil_parse(text, today) ==
    LET runs == DigitRuns(text, 1)
        n == Len(runs)
        v == [k \in 1..n |-> ToInt(runs[k])]
        long == { k \in 1..n : Len(runs[k]) > 2 }
        \* which number is the year, the month and the day (0: none)
        ymd == IF n = 1 THEN (IF v[1] > 31 \/ 1 \in long THEN << 1, 0, 0 >> ELSE << 0, 0, 1 >>)
               ELSE IF n = 2
               THEN (IF v[1] > 31 THEN << 1, 2, 0 >>
                     ELSE IF v[2] > 31 THEN << 2, 1, 0 >>
                     ELSE IF v[2] <= 12 THEN << 0, 2, 1 >>
                     ELSE << 0, 1, 2 >>)
               ELSE (IF v[1] > 31 \/ 1 \in long
                     THEN (IF v[3] <= 12 THEN << 1, 3, 2 >> ELSE << 1, 2, 3 >>)
                     ELSE IF v[1] > 12 \/ v[2] <= 12 THEN << 3, 2, 1 >>
                     ELSE << 3, 1, 2 >>)
        year == IF ymd[1] = 0 THEN today[1]
                ELSE IF long = {} /\ v[ymd[1]] < 100 THEN convertyear(v[ymd[1]], today[1])
                ELSE v[ymd[1]]
        month == IF ymd[2] = 0 THEN today[2] ELSE v[ymd[2]]
        day == IF ymd[3] = 0 THEN Min(today[3], DaysInMonth(year, month)) ELSE v[ymd[3]]
    IN  IF n \in 1..3 /\ Cardinality(long) <= 1 /\ ValidDate(year, month, day)
        THEN << year, month, day >>
        ELSE << >>

\* The decimal digits of n, zero-padded to width characters.
RECURSIVE ZeroPadded(_, _)
ZeroPadded(n, width) ==
    IF width = 0 THEN << >>
    ELSE ZeroPadded(n \div 10, width - 1) \o << Digit[(n % 10) + 1] >>

\* date.strftime('%Y-%m-%d')
strftime(dt) ==
    ZeroPadded(dt[1], 4) \o <<"-">> \o ZeroPadded(dt[2], 2) \o <<"-">> \o ZeroPadded(dt[3], 2)

\* parse_date_any called on the day today.
parse_date_any(date_text, today) ==
    IF ~TruthyStr(date_text) THEN None
    ELSE LET text == Strip(Value(date_text))
             parsed == dateutil_parse(text, today)
         IN  IF parsed # << >> THEN Some(strftime(parsed))
             ELSE RegexFallback(Lower(text))

marketplaces ==
    { <<"m","e","r","c","a","d","o","l","i","v","r","e",".","c","o","m">>,
      <<"m","e","r","c","a","d","o","l","i","b","r","e",".","c","o","m">>,
      <<"a","m","a","z","o","n",".","c","o","m">>,
      <<"a","m","a","z","o","n",".","c","o","m",".","b","r">>,
      <<"s","h","o","p","e","e",".","c","o","m",".","b","r">>,
      <<"m","a","g","a","z","i","n","e","l","u","i","z","a",".","c","o","m",".","b","r">>,
      <<"m","a","g","a","l","u",".","c","o","m",".","b","r">>,
      <<"a","m","e","r","i","c","a","n","a","s",".","c","o","m",".","b","r">>,
      <<"c","a","s","a","s","b","a","h","i","a",".","c","o","m",".","b","r">>,
      <<"s","u","b","m","a","r","i","n","o",".","c","o","m",".","b","r">>,
      <<"e","x","t","r","a",".","c","o","m",".","b","r">>,
      <<"p","o","n","t","o","f","r","i","o",".","c","o","m",".","b","r">> }

\* is_marketplace without the lower() call (a fault C3 must detect).
is_marketplace_nolower(url) ==
    IF ~TruthyStr(url) THEN FALSE
    ELSE \E marketplace \in marketplaces : Contains(Value(url), marketplace)

is_marketplace(url) ==
    IF ~TruthyStr(url) THEN FALSE
    ELSE LET url_lower == Lower(Value(url))
         IN  \E marketplace \in marketplaces : Contains(url_lower, marketplace)

dropshipping_patterns ==
    { <<"m","y","s","h","o","p","i","f","y",".","c","o","m">>,
      <<"/","p","r","o","d","u","c","t","s","/">>,
      <<"y","a","m","p","i",".","c","o","m",".","b","r">>,
      <<"a","p","p","m","a","x",".","c","o","m",".","b","r">>,
      <<"c","a","r","t","p","a","n","d","a",".","c","o","m",".","b","r">>,
      <<"n","u","v","e","m","s","h","o","p",".","c","o","m",".","b","r">>,
      <<"t","r","a","y",".","c","o","m",".","b","r">>,
      <<"l","o","j","a",".","c","o","m",".","b","r">>,
      <<"c","h","e","c","k","o","u","t">>,
      <<"c","o","m","p","r","a","r","-","a","g","o","r","a">>,
      <<"a","d","d","-","t","o","-","c","a","r","t">>,
      <<"p","r","o","d","u","t","o","-">> }

is_probable_dropshipping(url) ==
    IF ~TruthyStr(url) THEN FALSE
    ELSE LET url_lower == Lower(Value(url))
         IN  \E pattern \in dropshipping_patterns : Contains(url_lower, pattern)


-----------------------------------------------------------------------------
(* main.py: the result pipeline *)

\* One result is an AdOut; `id` stands for the identity of the Python object, which
\* the pipeline passes along by reference and never copies.
\* The AdData fields the pipeline reads or writes.
AdData(url, days, variations, active, dropshipping, reason, score) ==
    [ landing_url |-> url,
      days_active |-> days,
      variations_count |-> variations,
      advertiser_active_ads_est |-> active,
      is_probable_dropshipping |-> dropshipping,
      exclusion_reason |-> reason,
      score |-> score ]

AdOut(id, ad) == [id |-> id, ad |-> ad]

\* filter_results with `<=` for `<` in the min_days test (a fault C2 must detect).
FilterOneStrict(result, req) ==
    LET ad == result.ad
    IN  IF req.exclude_marketplaces /\ TruthyStr(ad.landing_url)
           /\ is_marketplace(ad.landing_url)
        THEN << [result EXCEPT !.ad.exclusion_reason = Some("Marketplace")] >>
        ELSE IF ad.days_active <= req.min_days THEN << >>
        ELSE IF ad.advertiser_active_ads_est < req.min_active_ads THEN << >>
        ELSE << result >>

\* filter_results without the `continue` of its marketplace branch: an annotated
\* record goes on to the threshold tests and is appended again when it passes them
\* (a fault C28 must detect).
FilterOneNoContinue(result, req) ==
    LET ad == result.ad
        annotated == [result EXCEPT !.ad.exclusion_reason = Some("Marketplace")]
        marked == req.exclude_marketplaces /\ TruthyStr(ad.landing_url)
                    /\ is_marketplace(ad.landing_url)
    IN  (IF marked THEN << annotated >> ELSE << >>)
        \o (IF ad.days_active < req.min_days THEN << >>
            ELSE IF ad.advertiser_active_ads_est < req.min_active_ads THEN << >>
            ELSE << IF marked THEN annotated ELSE result >>)

\* The body of filter_results's loop for one result: the results it appends.
FilterOne(result, req) ==
    LET ad == result.ad
    IN  IF req.exclude_marketplaces /\ TruthyStr(ad.landing_url)
           /\ is_marketplace(ad.landing_url)
        THEN << [result EXCEPT !.ad.exclusion_reason = Some("Marketplace")] >>
        ELSE IF ad.days_active < req.min_days THEN << >>
        ELSE IF ad.advertiser_active_ads_est < req.min_active_ads THEN << >>
        ELSE << result >>

RECURSIVE filter_results(_, _)
filter_results(results_, req) ==
    IF results_ = << >> THEN << >>
    ELSE FilterOne(Head(results_), req) \o filter_results(Tail(results_), req)

\* enhance_results keeping a non-zero upstream score (a fault C4 must detect).
EnhanceOneKeepScore(result) ==
    LET ad == result.ad
        scored == IF ad.score # 0 THEN ad
                  ELSE [ad EXCEPT !.score =
                           compute_score(Some(ad.advertiser_active_ads_est),
                                         Some(ad.days_active),
                                         Some(ad.variations_count))]
    IN  [result EXCEPT !.ad =
            IF ~scored.is_probable_dropshipping /\ TruthyStr(scored.landing_url)
            THEN [scored EXCEPT !.is_probable_dropshipping =
                                    is_probable_dropshipping(scored.landing_url)]
            ELSE scored]

\* enhance_results deriving the dropshipping flag anew for every record with a
\* landing URL (a fault C20 must detect).
EnhanceOneRederive(result) ==
    LET ad == result.ad
        scored == [ad EXCEPT !.score =
                      compute_score(Some(ad.advertiser_active_ads_est),
                                    Some(ad.days_active),
                                    Some(ad.variations_count))]
    IN  [result EXCEPT !.ad =
            IF TruthyStr(scored.landing_url)
            THEN [scored EXCEPT !.is_probable_dropshipping =
                                    is_probable_dropshipping(scored.landing_url)]
            ELSE scored]

\* The body of enhance_results's loop for one result.
EnhanceOne(result) ==
    LET ad == result.ad
        scored == [ad EXCEPT !.score =
                      compute_score(Some(ad.advertiser_active_ads_est),
                                    Some(ad.days_active),
                                    Some(ad.variations_count))]
    IN  [result EXCEPT !.ad =
            IF ~scored.is_probable_dropshipping /\ TruthyStr(scored.landing_url)
            THEN [scored EXCEPT !.is_probable_dropshipping =
                                    is_probable_dropshipping(scored.landing_url)]
            ELSE scored]

enhance_results(results_) == [i \in 1..Len(results_) |-> EnhanceOne(results_[i])]

\* The sort key without its days_active component (a fault C1 must detect).
SortKeyLessScoreOnly(x, y) == -x.ad.score < -y.ad.score

\* key=lambda x: (-x.ad.score, -x.ad.days_active), compared as Python compares tuples
SortKeyLess(x, y) ==
    \/ -x.ad.score < -y.ad.score
    \/ -x.ad.score = -y.ad.score /\ -x.ad.days_active < -y.ad.days_active

\* An unstable sort, which puts an element before its ties (a fault C5 must detect).
RECURSIVE InsertSortedBeforeTies(_, _)
InsertSortedBeforeTies(x, s) ==
    IF s = << >> THEN << x >>
    ELSE IF ~SortKeyLess(Head(s), x) THEN << x >> \o s
    ELSE << Head(s) >> \o InsertSortedBeforeTies(x, Tail(s))

\* list.sort is stable: an element goes after every element whose key is not greater.
RECURSIVE InsertSorted(_, _)
InsertSorted(x, s) ==
    IF s = << >> THEN << x >>
    ELSE IF SortKeyLess(x, Head(s)) THEN << x >> \o s
    ELSE << Head(s) >> \o InsertSorted(x, Tail(s))

RECURSIVE Sort(_)
Sort(s) ==
    IF s = << >> THEN << >>
    ELSE InsertSorted(s[Len(s)], Sort(SubSeq(s, 1, Len(s) - 1)))

\* search_ads from `if not results` to `return filtered_results`
Pipeline(results_, req) ==
    IF results_ = << >> THEN << >>
    ELSE Sort(filter_results(enhance_results(results_), req))

-----------------------------------------------------------------------------
(* Input domains *)

UrlMarket == <<"h","t","t","p",":","/","/","S","h","o","p","e","e",".","c","o","m",".","b","r">>
UrlShop   == <<"h","t","t","p",":","/","/","a",".","M","y","S","h","o","p","i","f","y",".","c","o","m">>

LandingUrls  == { None, Some(UrlMarket), Some(UrlShop) }
DaysVals     == { 0, 2 }
ActiveVals   == { 0, 1 }
\* What an upstream producer may have left in the derived fields of a record.
Upstream == { [flag |-> FALSE, score |-> 0], [flag |-> TRUE, score |-> 9999] }
MinDaysVals  == { 0, 1 }
MinActiveVals == { 0, 1 }

Queries ==
    { << >>, <<" ">>, <<"a">>, <<" ","a","\n">>, <<"a","b">>, <<" ","a","b"," ">> }

SearchRequests(queries) ==
    [ query : queries, exclude_marketplaces : BOOLEAN,
      min_days : MinDaysVals, min_active_ads : MinActiveVals ]

\* The bodies FastAPI validates against SearchRequest and hands to search_ads:
\* min_days and min_active_ads are declared as plain `int`, so any integer passes.
ReceivedRequests(queries) ==
    [ query : queries, exclude_marketplaces : BOOLEAN,
      min_days : MinDaysVals \cup { -1 }, min_active_ads : MinActiveVals \cup { -1 } ]

MaxFragments == 2      \* ad containers found on one page
MaxResults == 2        \* records handed to the result pipeline
MaxActiveArg == 52     \* largest advertiser_active_ads_est passed to compute_score
MaxDaysArg == 62       \* largest days_active passed to compute_score
MaxVariationsArg == 6  \* largest variations_count of the dense range
LargeVariations == { 20, 41, 500 }

\* Records as extract_ad_data leaves them: score and exclusion_reason at their defaults,
\* the dropshipping flag derived from the landing URL.
BuiltAds ==
    { AdData(u, d, 1, 0, IF TruthyStr(u) THEN is_probable_dropshipping(u) ELSE FALSE,
             None, 0) : u \in LandingUrls, d \in DaysVals }

\* Any record a caller may hand to the pipeline.
PipelineAds ==
    { AdData(u, d, 1, a, up.flag, None, up.score) :
        u \in LandingUrls, d \in DaysVals, a \in ActiveVals, up \in Upstream }

\* Lists of at most n results, the i-th with identity i.
ResultLists(n) ==
    UNION { { [i \in 1..k |-> AdOut(i, ads[i])] : ads \in [1..k -> PipelineAds] } : k \in 0..n }

PipelineInputs == ResultLists(MaxResults)

NoResponse == [status |-> 0, kind |-> "none", items |-> << >>]
ListResponse(items) == [status |-> 200, kind |-> "list", items |-> items]
BlockedResponse == [status |-> 200, kind |-> "blocked", items |-> << >>]
ErrorResponse(status) == [status |-> status, kind |-> "error", items |-> << >>]

\* [{"needs_manual_solve": True, "message": "CAPTCHA detectado"}]
CaptchaSentinel == << [needs_manual_solve |-> TRUE, message |-> "CAPTCHA detectado"] >>
IsDict(x) == "needs_manual_solve" \in DOMAIN x

OptInts(lo, hi) == { None } \cup { Some(k) : k \in lo..hi }

-----------------------------------------------------------------------------
(* main.py: search_ads, up to the call of the acquisition backend *)

\* The query test without strip() (a fault C8 must detect).
QueryRejectedNoStrip(query) == query = << >> \/ Len(query) < 2

\* `not request.query.strip()` or `len(request.query.strip()) < 2`
QueryRejected(query) == Strip(query) = << >> \/ Len(Strip(query)) < 2

ValidateQuery ==
    /\ pc = "received"
    /\ IF QueryRejected(request.query)
       THEN /\ response' = ErrorResponse(400)
            /\ pc' = "done"
            /\ UNCHANGED backend_calls
       ELSE /\ backend_calls' = backend_calls + 1
            /\ pc' = "launch"
            /\ UNCHANGED response
    /\ UNCHANGED << USE_SELENIUM_FALLBACK, request, browser, captcha_seen, acq_error,
                    fragments, frag_i, ads_data, results, pipeline_in, rerun,
                    score_args, score_ret,
                    call_args, call_ret,
                    nav_attempts, playwright, pages, heap, tasks >>

-----------------------------------------------------------------------------
(* scraper.py: buscar_criativos_facebook and FacebookAdsScraper *)

\* buscar_criativos_facebook returns `value`; the handler resumes after its await.
Return(value) ==
    /\ results' = value
    /\ pc' = "respond"

\* __aexit__: `await self.browser.close()`, then `await self.playwright.stop()`
Exit ==
    /\ browser' = "closed"
    /\ playwright' = "stopped"

\* __aenter__: an exception of async_playwright().start() leaves neither driver nor
\* browser, one of chromium.launch leaves the driver started and no browser, one after
\* it (new_context, new_page) leaves the browser open, and __aexit__ is not run for
\* any of them; the `except Exception` of buscar_criativos_facebook turns all into [].
LaunchBrowser ==
    /\ pc = "launch"
    /\ \E outcome \in {"ok", "start_raises", "launch_raises", "page_raises"} :
         IF outcome = "ok"
         THEN /\ browser' = "open"
              /\ playwright' = "started"
              /\ pc' = "initial_captcha"
              /\ UNCHANGED << acq_error, results >>
         ELSE /\ browser' = IF outcome = "page_raises" THEN "open" ELSE "none"
              /\ playwright' = IF outcome = "start_raises" THEN "none" ELSE "started"
              /\ acq_error' = TRUE
              /\ Return(<< >>)
    /\ UNCHANGED << USE_SELENIUM_FALLBACK, request, captcha_seen, fragments, frag_i,
                    ads_data, pipeline_in, response, backend_calls, rerun,
                    score_args, score_ret,
                    call_args, call_ret,
                    nav_attempts, pages, heap, tasks >>

\* `if await scraper.check_for_captcha(): return [sentinel]`, inside the `async with`
InitialCaptchaCheck ==
    /\ pc = "initial_captcha"
    /\ \E outcome \in {"clear", "captcha", "raises"} :
         CASE outcome = "clear" ->
                /\ pc' = "navigate"
                /\ UNCHANGED << browser, playwright, captcha_seen, acq_error, results >>
           [] outcome = "captcha" ->
                /\ captcha_seen' = "initial"
                /\ Exit
                /\ Return(CaptchaSentinel)
                /\ UNCHANGED acq_error
           [] outcome = "raises" ->
                /\ acq_error' = TRUE
                /\ Exit
                /\ Return(<< >>)
                /\ UNCHANGED captcha_seen
    /\ UNCHANGED << USE_SELENIUM_FALLBACK, request, fragments, frag_i, ads_data,
                    pipeline_in, response, backend_calls, rerun, score_args, score_ret,
                    call_args, call_ret,
                    nav_attempts, pages, heap, tasks >>

\* navigate_to_ads_library catches every exception and returns False, so the tenacity
\* decorator, which retries on exceptions only, sees none; scrape_ads returns its empty
\* list on False, and buscar_criativos_facebook returns the (empty) sorted results.
NavigateToAdsLibrary ==
    /\ pc = "navigate"
    /\ \E outcome \in {"ok", "captcha", "raises"} :
         /\ nav_attempts' = Append(nav_attempts, outcome)
         /\ CASE outcome = "ok" ->
                   /\ pc' = "select"
                   /\ UNCHANGED << browser, playwright, captcha_seen, acq_error, results >>
              [] outcome = "captcha" ->
                   /\ captcha_seen' = "navigation"
                   /\ Exit
                   /\ Return(<< >>)
                   /\ UNCHANGED acq_error
              [] outcome = "raises" ->
                   /\ acq_error' = TRUE
                   /\ Exit
                   /\ Return(<< >>)
                   /\ UNCHANGED captcha_seen
    /\ UNCHANGED << USE_SELENIUM_FALLBACK, request, fragments, frag_i, ads_data,
                    pipeline_in, response, backend_calls, rerun, score_args, score_ret,
                    call_args, call_ret,
                    pages, heap, tasks >>

\* scroll_and_load and the container selectors: n containers are found, or a call
\* raises and scrape_ads's outer except returns the empty list.
SelectAds ==
    /\ pc = "select"
    /\ \E n \in 0..MaxFragments, raises \in BOOLEAN :
         IF raises \/ n = 0
         THEN /\ acq_error' = (acq_error \/ raises)
              /\ Exit
              /\ Return(<< >>)
              /\ UNCHANGED << fragments, frag_i, ads_data >>
         ELSE /\ fragments' = n
              /\ frag_i' = 0
              /\ ads_data' = << >>
              /\ pc' = "extract"
              /\ UNCHANGED << acq_error, browser, playwright, results >>
    /\ UNCHANGED << USE_SELENIUM_FALLBACK, request, captcha_seen, pipeline_in, response,
                    backend_calls, rerun, score_args, score_ret,
                    call_args, call_ret,
                    nav_attempts, pages, heap, tasks >>

MAX_ADS == 50
LOOKUP_PREFIX == 10

\* One iteration of `for i, ad_element in enumerate(ads_found[:50])`: extract_ad_data
\* returns None (the container is skipped) or a record, whose advertiser lookup is made
\* for i < 10 when an advertiser link was found.
ProcessAd ==
    /\ pc = "extract"
    /\ frag_i < Min(fragments, MAX_ADS)
    /\ \E extracted \in BOOLEAN, ad \in BuiltAds, has_advertiser_url \in BOOLEAN,
          estimate \in ActiveVals :
         ads_data' =
            IF extracted
            THEN Append(ads_data,
                        [ad EXCEPT !.advertiser_active_ads_est =
                            IF frag_i < LOOKUP_PREFIX /\ has_advertiser_url
                            THEN estimate ELSE 0])
            ELSE ads_data
    /\ frag_i' = frag_i + 1
    /\ UNCHANGED << USE_SELENIUM_FALLBACK, request, pc, browser, captcha_seen, acq_error,
                    fragments, results, pipeline_in, response, backend_calls, rerun,
                    score_args, score_ret,
                    call_args, call_ret,
                    nav_attempts, playwright, pages, heap, tasks >>

\* buscar_criativos_facebook after scrape_ads: score every record, wrap it, sort.
ScoreAndWrap(ads) ==
    [i \in 1..Len(ads) |->
        AdOut(i, [ads[i] EXCEPT !.score =
                     compute_score(Some(ads[i].advertiser_active_ads_est),
                                   Some(ads[i].days_active),
                                   Some(ads[i].variations_count))])]

FinishScrape ==
    /\ pc = "extract"
    /\ frag_i = Min(fragments, MAX_ADS)
    /\ Exit
    /\ Return(Sort(ScoreAndWrap(ads_data)))
    /\ UNCHANGED << USE_SELENIUM_FALLBACK, request, captcha_seen, acq_error, fragments,
                    frag_i, ads_data, pipeline_in, response, backend_calls, rerun,
                    score_args, score_ret,
                    call_args, call_ret,
                    nav_attempts, pages, heap, tasks >>

-----------------------------------------------------------------------------
(* main.py: search_ads, after the acquisition returned *)

\* buscar_criativos_facebook never raises an Exception (its own handler returns []),
\* so the Selenium fallback and the HTTP 500 of search_ads's inner handler are never
\* entered; what is left is the CAPTCHA sentinel test and the pipeline.
Respond ==
    /\ pc = "respond"
    /\ IF results # << >> /\ IsDict(results[1]) /\ results[1].needs_manual_solve
       THEN /\ response' = BlockedResponse
            /\ pipeline_in' = << >>
       ELSE /\ response' = ListResponse(Pipeline(results, request))
            /\ pipeline_in' = results
    /\ pc' = "done"
    /\ UNCHANGED << USE_SELENIUM_FALLBACK, request, browser, captcha_seen, acq_error,
                    fragments, frag_i, ads_data, results, backend_calls, rerun,
                    score_args, score_ret,
                    call_args, call_ret,
                    nav_attempts, playwright, pages, heap, tasks >>

\* The returned list is fed through the pipeline again, with the same options.
RerunPipeline ==
    /\ pc = "done"
    /\ response.kind = "list"
    /\ rerun' = Some(Pipeline(response.items, request))
    /\ pc' = "rerun_done"
    /\ UNCHANGED << USE_SELENIUM_FALLBACK, request, browser, captcha_seen, acq_error,
                    fragments, frag_i, ads_data, results, pipeline_in, response,
                    backend_calls, score_args, score_ret,
                    call_args, call_ret,
                    nav_attempts, playwright, pages, heap, tasks >>

\* A direct call of compute_score.
CallComputeScore ==
    /\ pc = "score_call"
    /\ score_ret' = Some(compute_score(score_args[1], score_args[2], score_args[3]))
    /\ pc' = "score_done"
    /\ UNCHANGED << USE_SELENIUM_FALLBACK, request, browser, captcha_seen, acq_error,
                    fragments, frag_i, ads_data, results, pipeline_in, response,
                    backend_calls, rerun, score_args, call_args, call_ret,
                    nav_attempts, playwright, pages, heap, tasks >>

\* Every variable of the /search handler, of the pipeline and of compute_score calls.
handler_vars ==
    << USE_SELENIUM_FALLBACK, request, browser, captcha_seen, acq_error, fragments,
       frag_i, ads_data, results, pipeline_in, response, backend_calls, rerun,
       score_args, score_ret, nav_attempts, playwright, pages, heap, tasks >>

\* A direct call of days_between with an injected reference date.
CallDaysBetween ==
    /\ pc = "days_between_call"
    /\ call_ret' = Append(call_ret, days_between(call_args.date_str, call_args.today))
    /\ pc' = "days_between_done"
    /\ UNCHANGED << handler_vars, call_args >>

\* A direct call of normalize_text, on the argument and then on its own result.
CallNormalizeText ==
    /\ pc \in {"normalize_call", "normalize_done"}
    /\ call_ret' = Append(call_ret,
                          normalize_text(IF call_ret = << >> THEN call_args.text
                                         ELSE Some(call_ret[Len(call_ret)])))
    /\ pc' = IF pc = "normalize_call" THEN "normalize_done" ELSE "normalize_twice"
    /\ UNCHANGED << handler_vars, call_args >>

\* A direct call of clean_headline.
CallCleanHeadline ==
    /\ pc = "headline_call"
    /\ call_ret' = Append(call_ret, clean_headline(call_args.headline))
    /\ pc' = "headline_done"
    /\ UNCHANGED << handler_vars, call_args >>

\* A direct call of estimate_variations_from_text.
CallEstimateVariations ==
    /\ pc = "variations_call"
    /\ call_ret' = Append(call_ret, estimate_variations_from_text(call_args.text))
    /\ pc' = "variations_done"
    /\ UNCHANGED << handler_vars, call_args >>

\* A direct call of parse_date_any, made on the day call_args.today.
CallParseDateAny ==
    /\ pc = "parse_date_call"
    /\ call_ret' = Append(call_ret, parse_date_any(call_args.date_text, call_args.today))
    /\ pc' = "parse_date_done"
    /\ UNCHANGED << handler_vars, call_args >>

-----------------------------------------------------------------------------
(* scraper.py, scraper_selenium.py: the loop of scrape_ads over one page *)

\* The AdData fields scrape_ads reads or writes; `fragment` is the position, in
\* ads_found, of the container the record was built from.
ScrapedAd(fragment, advertiser_url, advertiser_active_ads_est) ==
    [ fragment |-> fragment,
      advertiser_url |-> advertiser_url,
      advertiser_active_ads_est |-> advertiser_active_ads_est ]

\* re.search(r'/(\d+)/?', advertiser_url) finds a match
HasPageId(advertiser_url) ==
    \E i \in 1..(Len(advertiser_url) - 1) :
        advertiser_url[i] = "/" /\ advertiser_url[i + 1] \in Digits

IsNotSeparator(c) == c \notin { ",", "." }

\* re.findall(r'\d+', count_text.replace(',', '').replace('.', ''))
CountNumbers(count_text) == DigitRuns(SelectSeq(count_text, IsNotSeparator), 1)

facebook_com == <<"f","a","c","e","b","o","o","k",".","c","o","m">>

\* What a call of estimate_advertiser_active_ads does: the value it returns, how many
\* pages or windows it opened and left open, whether the driver is on the window it
\* started on, and whether an exception was raised (and caught) on the way.
LookupResult(value, left_open, on_original, raised) ==
    [ value |-> value, left_open |-> left_open, on_original |-> on_original,
      raised |-> raised ]

\* estimate_advertiser_active_ads(advertiser_url) on a site that answers as `site`
\* says.  Playwright: the page new_page() returned is closed on the two return paths
\* of the try block and not by the except handler.  Selenium: the except handler
\* switches back to the original window and does not close the new one; an exception
\* of find_elements is caught inside the selector loop, so the normal path goes on.
estimate_advertiser_active_ads(backend, advertiser_url, site) ==
    IF ~TruthyStr(advertiser_url) THEN LookupResult(0, 0, TRUE, FALSE)
    ELSE IF site.lookup = "new_page_raises" THEN LookupResult(0, 0, TRUE, TRUE)
    ELSE IF Contains(Value(advertiser_url), facebook_com) /\ HasPageId(Value(advertiser_url))
    THEN IF site.lookup = "goto_raises" THEN LookupResult(0, 1, TRUE, TRUE)
         ELSE IF site.lookup = "query_raises"
         THEN IF backend = "playwright" THEN LookupResult(0, 1, TRUE, TRUE)
              ELSE LookupResult(0, 0, TRUE, TRUE)
         ELSE IF CountNumbers(site.count_text) # << >>
         THEN LookupResult(Min(ToInt(CountNumbers(site.count_text)[1]), 500), 0, TRUE, FALSE)
         ELSE LookupResult(0, 0, TRUE, FALSE)
    ELSE LookupResult(0, 0, TRUE, FALSE)

\* `if i < 10 and ad_data.advertiser_url` without the position test (a fault C21 must
\* detect).
LooksUpAnywhere(i, advertiser_url) == TruthyStr(advertiser_url)

\* `if i < 10 and ad_data.advertiser_url`
LooksUp(i, advertiser_url) == i < LOOKUP_PREFIX /\ TruthyStr(advertiser_url)

\* `ads_found` without its `[:50]` slice (a fault C22 must detect).
BatchUnlimited(ads_found) == ads_found

\* `ads_found[:50]`
Batch(ads_found) == SubSeq(ads_found, 1, Min(Len(ads_found), MAX_ADS))

\* One iteration of the loop of scrape_ads on the container at position frag_i of
\* call_args.page: extract_ad_data returns None and the container is skipped, or it
\* returns a record, the advertiser lookup is made if LooksUp, and the record is
\* appended.  call_ret keeps, for every lookup made, its position and what it did.
ProcessFragment ==
    /\ pc = "scrape_loop"
    /\ frag_i < Len(Batch(call_args.page))
    /\ LET ad_element == Batch(call_args.page)[frag_i + 1]
           looks_up == ad_element.extracts /\ LooksUp(frag_i, ad_element.advertiser_url)
           lookup == estimate_advertiser_active_ads(call_args.backend,
                                                    ad_element.advertiser_url, ad_element)
       IN  /\ ads_data' =
                IF ad_element.extracts
                THEN Append(ads_data,
                            ScrapedAd(frag_i, ad_element.advertiser_url,
                                      IF looks_up THEN lookup.value ELSE 0))
                ELSE ads_data
           /\ pages' = IF looks_up
                       THEN [open |-> pages.open + lookup.left_open,
                             on_original |-> lookup.on_original]
                       ELSE pages
           /\ call_ret' = IF looks_up
                          THEN Append(call_ret, [fragment |-> frag_i, did |-> lookup])
                          ELSE call_ret
    /\ frag_i' = frag_i + 1
    /\ UNCHANGED << USE_SELENIUM_FALLBACK, request, pc, browser, captcha_seen, acq_error,
                    fragments, results, pipeline_in, response, backend_calls, rerun,
                    score_args, score_ret, call_args, nav_attempts, playwright, heap,
                    tasks >>

\* The loop is over: scrape_ads returns ads_data.
ReturnBatch ==
    /\ pc = "scrape_loop"
    /\ frag_i = Len(Batch(call_args.page))
    /\ pc' = "scrape_done"
    /\ UNCHANGED << handler_vars, call_args, call_ret >>

-----------------------------------------------------------------------------
(* scraper.py, scraper_selenium.py: extract_ad_data on one container *)

\* What one selector gives on a container: no element, an element with a text, or an
\* exception of the browser call.
NoElement == [kind |-> "none", text |-> << >>]
Element(text) == [kind |-> "text", text |-> text]
SelectorRaises == [kind |-> "raises", text |-> << >>]

\* The test a headline text must pass.  Playwright:
\* `if headline and len(headline.strip()) > 5`; Selenium: `headline_elem.text.strip()`.
HeadlineQualifies(backend, headline) ==
    IF backend = "playwright"
    THEN headline # << >> /\ Len(Strip(headline)) > 5
    ELSE Strip(headline) # << >>

\* The loop over headline_selectors, `found` being what the selectors not yet tried
\* give, in order: the first qualifying text is cleaned and ends the loop, and an
\* exception ends the block with the headline still absent.  (With Selenium a missing
\* element raises NoSuchElementException, which the loop catches to go on.)
RECURSIVE ExtractHeadline(_, _)
ExtractHeadline(backend, found) ==
    IF found = << >> THEN None
    ELSE IF Head(found).kind = "raises" THEN None
    ELSE IF Head(found).kind = "text" /\ HeadlineQualifies(backend, Head(found).text)
         THEN Some(clean_headline(Some(Head(found).text)))
    ELSE ExtractHeadline(backend, Tail(found))

\* The date fields with days_active left unclamped (a fault C23 must detect).
StartDateFieldsSigned(parsed_date, today) ==
    [ start_date |-> parsed_date,
      days_active |-> days_between_signed(parsed_date, today) ]

\* `ad_data.start_date = parsed_date; ad_data.days_active = days_between(parsed_date)`
StartDateFields(parsed_date, today) ==
    [ start_date |-> parsed_date,
      days_active |-> days_between(parsed_date, today) ]

\* The loop over date_selectors: the first text parse_date_any reads as a date sets
\* both fields and ends the loop; with none, or after an exception, both fields keep
\* the defaults of AdData.
RECURSIVE ExtractStartDate(_, _)
ExtractStartDate(found, today) ==
    IF found = << >> THEN [start_date |-> None, days_active |-> 0]
    ELSE IF Head(found).kind = "raises" THEN [start_date |-> None, days_active |-> 0]
    ELSE IF Head(found).kind = "text" /\ Head(found).text # << >>
            /\ parse_date_any(Some(Head(found).text), today) # None
         THEN StartDateFields(parse_date_any(Some(Head(found).text), today), today)
    ELSE ExtractStartDate(Tail(found), today)

\* The date selectors of each backend: four with Playwright, three with Selenium.
DateSelectorCount(backend) == IF backend = "playwright" THEN 4 ELSE 3

\* extract_ad_data(ad_element) on the day today: None when the container is broken
\* (the outer except), else the record, of which the headline and the date fields are
\* kept.
extract_ad_data(backend, ad_element, today) ==
    IF ad_element.broken THEN None
    ELSE LET dates == ExtractStartDate(
                          SubSeq(ad_element.dates, 1, DateSelectorCount(backend)), today)
         IN  Some([ headline |-> ExtractHeadline(backend, ad_element.headlines),
                    start_date |-> dates.start_date,
                    days_active |-> dates.days_active ])

\* A direct call of extract_ad_data.
CallExtractAdData ==
    /\ pc = "extract_call"
    /\ call_ret' = Append(call_ret, extract_ad_data(call_args.backend, call_args.ad_element,
                                                    call_args.today))
    /\ pc' = "extract_done"
    /\ UNCHANGED << handler_vars, call_args >>

-----------------------------------------------------------------------------
(* main.py, scraper.py: /search requests run together by the event loop *)

\* Each request runs search_ads as one task; a task gives way to the others only at
\* an await.  Every task has its own FacebookAdsScraper, browser and page (they are
\* created inside buscar_criativos_facebook), so what tasks could share is the AdData
\* objects of the process, kept in heap by identity: the identity of an object is its
\* index in heap, and lists hold identities.

\* An allocation that hands out an object already in the heap when it holds the same
\* field values, as an interning cache would (a fault C25 must detect).
AllocateInterned(objects, ad) ==
    IF \E id \in 1..Len(objects) : objects[id] = ad
    THEN [ id |-> CHOOSE id \in 1..Len(objects) : objects[id] = ad, heap |-> objects ]
    ELSE [ id |-> Len(objects) + 1, heap |-> Append(objects, ad) ]

\* `ad_data = AdData()`: a new object, with an identity no other object has.
Allocate(objects, ad) ==
    [ id |-> Len(objects) + 1, heap |-> Append(objects, ad) ]

\* The AdOut values of a list of identities, as the heap has them now.
Deref(objects, ids) == [k \in 1..Len(ids) |-> AdOut(ids[k], objects[ids[k]])]

Ids(items) == [k \in 1..Len(items) |-> items[k].id]
IdSet(ids) == { ids[k] : k \in 1..Len(ids) }

\* One container of the task's page is extracted (extract_ad_data awaits the browser
\* several times) and its record appended to the task's ads_data.
TaskBuild(t) ==
    /\ tasks[t].pc = "scrape"
    /\ Len(tasks[t].ads_data) < Len(tasks[t].page)
    /\ LET new == Allocate(heap, tasks[t].page[Len(tasks[t].ads_data) + 1])
       IN  /\ heap' = new.heap
           /\ tasks' = [tasks EXCEPT ![t].ads_data = Append(@, new.id)]
    /\ UNCHANGED << USE_SELENIUM_FALLBACK, request, pc, browser, captcha_seen, acq_error,
                    fragments, frag_i, ads_data, results, pipeline_in, response,
                    backend_calls, rerun, score_args, score_ret, call_args, call_ret,
                    nav_attempts, playwright, pages >>

\* scrape_ads has returned: buscar_criativos_facebook scores every record of the batch
\* in place and wraps it, then awaits __aexit__.
TaskScore(t) ==
    /\ tasks[t].pc = "scrape"
    /\ Len(tasks[t].ads_data) = Len(tasks[t].page)
    /\ heap' = [id \in DOMAIN heap |->
                  IF id \in IdSet(tasks[t].ads_data)
                  THEN [heap[id] EXCEPT !.score =
                           compute_score(Some(heap[id].advertiser_active_ads_est),
                                         Some(heap[id].days_active),
                                         Some(heap[id].variations_count))]
                  ELSE heap[id]]
    /\ tasks' = [tasks EXCEPT ![t].results = tasks[t].ads_data, ![t].pc = "exit"]
    /\ UNCHANGED << USE_SELENIUM_FALLBACK, request, pc, browser, captcha_seen, acq_error,
                    fragments, frag_i, ads_data, results, pipeline_in, response,
                    backend_calls, rerun, score_args, score_ret, call_args, call_ret,
                    nav_attempts, playwright, pages >>

\* __aexit__ is over: buscar_criativos_facebook sorts and returns, and search_ads goes
\* on, without an await, through enhance_results, filter_results and the sort to its
\* return.  The objects the pipeline was given are rewritten in place.
TaskRespond(t) ==
    /\ tasks[t].pc = "exit"
    /\ LET acquired == Sort(Deref(heap, tasks[t].results))
           enhanced == enhance_results(acquired)
           returned == Pipeline(acquired, tasks[t].request)
           Rewritten(id) ==
              IF \E k \in 1..Len(returned) : returned[k].id = id
              THEN returned[CHOOSE k \in 1..Len(returned) : returned[k].id = id].ad
              ELSE enhanced[CHOOSE k \in 1..Len(enhanced) : enhanced[k].id = id].ad
       IN  /\ heap' = [id \in DOMAIN heap |->
                         IF id \in IdSet(tasks[t].results) THEN Rewritten(id) ELSE heap[id]]
           /\ tasks' = [tasks EXCEPT ![t].results = Ids(acquired),
                                     ![t].returned = Ids(returned),
                                     ![t].pc = "serialize"]
    /\ UNCHANGED << USE_SELENIUM_FALLBACK, request, pc, browser, captcha_seen, acq_error,
                    fragments, frag_i, ads_data, results, pipeline_in, response,
                    backend_calls, rerun, score_args, score_ret, call_args, call_ret,
                    nav_attempts, playwright, pages >>

\* FastAPI serialises the returned list (response_model=List[AdOut]): the response
\* body holds the field values the objects have at that moment.
TaskSerialize(t) ==
    /\ tasks[t].pc = "serialize"
    /\ tasks' = [tasks EXCEPT
                   ![t].response = ListResponse([k \in 1..Len(tasks[t].returned) |->
                                                    heap[tasks[t].returned[k]]]),
                   ![t].pc = "done"]
    /\ UNCHANGED << USE_SELENIUM_FALLBACK, request, pc, browser, captcha_seen, acq_error,
                    fragments, frag_i, ads_data, results, pipeline_in, response,
                    backend_calls, rerun, score_args, score_ret, call_args, call_ret,
                    nav_attempts, playwright, pages, heap >>

-----------------------------------------------------------------------------
(* Specifications *)

\* No advertiser lookup has opened a page; the driver is on its original window.
NoPages == [open |-> 0, on_original |-> TRUE]

\* No /search request is being run by the event loop.
NoTasks ==
    /\ heap = << >>
    /\ tasks = << >>

Quiescent ==
    /\ browser = "none"
    /\ captcha_seen = "no"
    /\ acq_error = FALSE
    /\ fragments = 0
    /\ frag_i = 0
    /\ ads_data = << >>
    /\ pipeline_in = << >>
    /\ response = NoResponse
    /\ backend_calls = 0
    /\ rerun = None
    /\ nav_attempts = << >>
    /\ playwright = "none"
    /\ pages = NoPages

\* No text or date helper is being called.
NoCall ==
    /\ call_args = << >>
    /\ call_ret = << >>

\* One /search request from its arrival to its response.
Init ==
    /\ USE_SELENIUM_FALLBACK \in BOOLEAN
    /\ request \in ReceivedRequests(Queries)
    /\ pc = "received"
    /\ results = << >>
    /\ Quiescent
    /\ NoTasks
    /\ score_args = << None, None, None >>
    /\ score_ret = None
    /\ NoCall

Next ==
    \/ ValidateQuery
    \/ LaunchBrowser
    \/ InitialCaptchaCheck
    \/ NavigateToAdsLibrary
    \/ SelectAds
    \/ ProcessAd
    \/ FinishScrape
    \/ Respond

Spec == Init /\ [][Next]_vars

\* The result pipeline of search_ads on any list of records and any options.
InitPipeline ==
    /\ USE_SELENIUM_FALLBACK = FALSE
    /\ request \in SearchRequests({ <<"a","b">> })
    /\ pc = "respond"
    /\ results \in PipelineInputs
    /\ Quiescent
    /\ NoTasks
    /\ score_args = << None, None, None >>
    /\ score_ret = None
    /\ NoCall

NextPipeline ==
    \/ Respond
    \/ RerunPipeline

PipelineSpec == InitPipeline /\ [][NextPipeline]_vars

\* compute_score on any arguments.
InitScore ==
    /\ USE_SELENIUM_FALLBACK = FALSE
    /\ request = [query |-> <<"a","b">>, exclude_marketplaces |-> TRUE,
                  min_days |-> 0, min_active_ads |-> 0]
    /\ pc = "score_call"
    /\ results = << >>
    /\ Quiescent
    /\ NoTasks
    /\ score_args \in OptInts(-2, MaxActiveArg) \X OptInts(-2, MaxDaysArg)
                        \X (OptInts(-2, MaxVariationsArg)
                              \cup { Some(v) : v \in LargeVariations })
    /\ score_ret = None
    /\ NoCall

NextScore == CallComputeScore

ScoreSpec == InitScore /\ [][NextScore]_vars

\* Date strings handed to days_between: every year-month-day combination of the
\* fields below, padded or not, possible or not, and strings of other shapes.
YearTexts == { <<"2","0","2","4">>, <<"2","0","2","5">>, <<"2","0","9","9">>, <<"0","0","0","0">> }
MonthTexts == { <<"0","1">>, <<"1">>, <<"0","2">>, <<"2">>, <<"1","2">>, <<"1","3">>, <<"0","0">> }
DayTexts == { <<"0","1">>, <<"1">>, <<"2","8">>, <<"2","9">>, <<"3","0">>, <<"3","1">>, <<"3","2">>, <<" ","1">> }
OtherTexts == { <<"a","b","c">>, <<"2","0","2","5","/","0","1","/","0","1">>, <<"2","0","2","5","-","0","1","-","0","1"," ">>, <<"2","0","2","5","-","0","1","-","0","1","0">>, <<"2","0","2","5","0","1","0","1">> }

DateStrings ==
    { None, Some(<< >>) }
      \cup { Some(y \o <<"-">> \o m \o <<"-">> \o d) :
                 y \in YearTexts, m \in MonthTexts, d \in DayTexts }
      \cup { Some(t) : t \in OtherTexts }

ReferenceDates == { <<2025, 1, 10>>, <<2024, 2, 29>>, <<2025, 3, 1>>, <<2024, 12, 31>> }

\* days_between on any date string and any injected reference date.
InitDaysBetween ==
    /\ USE_SELENIUM_FALLBACK = FALSE
    /\ request = [query |-> <<"a","b">>, exclude_marketplaces |-> TRUE,
                  min_days |-> 0, min_active_ads |-> 0]
    /\ pc = "days_between_call"
    /\ results = << >>
    /\ Quiescent
    /\ NoTasks
    /\ score_args = << None, None, None >>
    /\ score_ret = None
    /\ call_args \in [date_str : DateStrings, today : ReferenceDates]
    /\ call_ret = << >>

NextDaysBetween == CallDaysBetween

DaysBetweenSpec == InitDaysBetween /\ [][NextDaysBetween]_vars

\* Texts handed to normalize_text: every string of at most MaxTextLen characters over
\* a letter, a space, a newline and a control character that is not whitespace.
MaxTextLen == 5
TextChars == { "a", " ", "\n", SOH }

RECURSIVE Texts(_)
Texts(n) ==
    IF n = 0 THEN { << >> }
    ELSE Texts(n - 1) \cup { Append(t, c) : t \in { u \in Texts(n - 1) : Len(u) = n - 1 },
                                            c \in TextChars }

NormalizeInputs == { None } \cup { Some(t) : t \in Texts(MaxTextLen) }

\* normalize_text on any text.
InitNormalize ==
    /\ USE_SELENIUM_FALLBACK = FALSE
    /\ request = [query |-> <<"a","b">>, exclude_marketplaces |-> TRUE,
                  min_days |-> 0, min_active_ads |-> 0]
    /\ pc = "normalize_call"
    /\ results = << >>
    /\ Quiescent
    /\ NoTasks
    /\ score_args = << None, None, None >>
    /\ score_ret = None
    /\ call_args \in [text : NormalizeInputs]
    /\ call_ret = << >>

NextNormalize == CallNormalizeText

NormalizeSpec == InitNormalize /\ [][NextNormalize]_vars

\* Headlines handed to clean_headline: a run of at most MaxPrefixRun known prefixes,
\* each followed by the same separator, then a body that starts with no prefix.
MaxPrefixRun == 2
PrefixIds == 1..Len(prefixes_to_remove)
Separators == { << >>, << " " >> }
Bodies == { <<"O","f","e","r","t","a">>, <<"x"," "," ","y">> }

RECURSIVE PrefixRuns(_)
PrefixRuns(n) ==
    IF n = 0 THEN { << >> }
    ELSE PrefixRuns(n - 1)
           \cup { Append(r, i) : r \in { q \in PrefixRuns(n - 1) : Len(q) = n - 1 },
                                 i \in PrefixIds }

RECURSIVE BuildHeadline(_, _, _)
BuildHeadline(run, sep, body) ==
    IF run = << >> THEN body
    ELSE prefixes_to_remove[Head(run)] \o sep \o BuildHeadline(Tail(run), sep, body)

HeadlineInputs ==
    { [run |-> r, sep |-> p, body |-> b, headline |-> Some(BuildHeadline(r, p, b))] :
         r \in PrefixRuns(MaxPrefixRun), p \in Separators, b \in Bodies }
      \cup { [run |-> << >>, sep |-> << >>, body |-> << >>, headline |-> h] :
                h \in { None, Some(<< >>) } }

\* clean_headline on any headline.
InitHeadline ==
    /\ USE_SELENIUM_FALLBACK = FALSE
    /\ request = [query |-> <<"a","b">>, exclude_marketplaces |-> TRUE,
                  min_days |-> 0, min_active_ads |-> 0]
    /\ pc = "headline_call"
    /\ results = << >>
    /\ Quiescent
    /\ NoTasks
    /\ score_args = << None, None, None >>
    /\ score_ret = None
    /\ call_args \in HeadlineInputs
    /\ call_ret = << >>

NextHeadline == CallCleanHeadline

HeadlineSpec == InitHeadline /\ [][NextHeadline]_vars

\* The phrases the texts are made of: the pattern a phrase is a cue for (0 when it
\* is a cue for none) and the number written in it.
Cues ==
    << [text |-> <<"2"," ","v","e","r","s","õ","e","s">>, pattern |-> 1, count |-> 2],
       [text |-> <<"3","0"," ","V","a","r","i","a","ç","õ","e","s">>, pattern |-> 1, count |-> 30],
       [text |-> <<"4"," ","o","p","ç","õ","e","s">>, pattern |-> 1, count |-> 4],
       [text |-> <<"D","i","s","p","o","n","í","v","e","l"," ","e","m"," ","9">>, pattern |-> 2, count |-> 9],
       [text |-> <<"3","c","o","r","e","s">>, pattern |-> 3, count |-> 3],
       [text |-> <<"2","5"," ","C","O","R","E","S">>, pattern |-> 3, count |-> 25],
       [text |-> <<"0"," ","c","o","r","e","s">>, pattern |-> 3, count |-> 0],
       [text |-> <<"7"," ","t","a","m","a","n","h","o","s">>, pattern |-> 4, count |-> 7],
       [text |-> <<"s","e","m">>, pattern |-> 0, count |-> 0] >>

\* Texts handed to estimate_variations_from_text: at most MaxCues phrases, in any
\* order, separated by one space.
MaxCues == 2

RECURSIVE CueRuns(_)
CueRuns(n) ==
    IF n = 0 THEN { << >> }
    ELSE CueRuns(n - 1)
           \cup { Append(r, i) : r \in { q \in CueRuns(n - 1) : Len(q) = n - 1 },
                                 i \in 1..Len(Cues) }

RECURSIVE BuildText(_)
BuildText(run) ==
    IF run = << >> THEN << >>
    ELSE IF Len(run) = 1 THEN Cues[run[1]].text
    ELSE Cues[Head(run)].text \o << " " >> \o BuildText(Tail(run))

VariationInputs ==
    { [cues |-> r, text |-> Some(BuildText(r))] : r \in CueRuns(MaxCues) }
      \cup { [cues |-> << >>, text |-> None] }

\* estimate_variations_from_text on any text.
InitVariations ==
    /\ USE_SELENIUM_FALLBACK = FALSE
    /\ request = [query |-> <<"a","b">>, exclude_marketplaces |-> TRUE,
                  min_days |-> 0, min_active_ads |-> 0]
    /\ pc = "variations_call"
    /\ results = << >>
    /\ Quiescent
    /\ NoTasks
    /\ score_args = << None, None, None >>
    /\ score_ret = None
    /\ call_args \in VariationInputs
    /\ call_ret = << >>

NextVariations == CallEstimateVariations

VariationsSpec == InitVariations /\ [][NextVariations]_vars

\* Texts handed to parse_date_any. In the dated shapes the fields are kept next to
\* the text built from them; shape is "pt" for 'dd de <mes> de yyyy' after a lead,
\* "slash" for dd/mm/yyyy and "other" for the rest.
Leads == { << >>, <<"i","n","i","c","i","o","u"," ","e","m"," ">> }
PtDays == { <<"4">>, <<"5">>, <<"1","5">>, <<"3","1">> }
PtMonths == { <<"m","a","r","ç","o">>, <<"d","e","z">>, <<"f","e","v">>, <<"M","a","i","o">>, <<"x","y","z">> }
PtYears == { <<"2","0","2","5">>, <<"2","0","2","4">> }
SlashDays == { <<"5">>, <<"1","3">>, <<"3","1">>, <<"9","9">> }
SlashMonths == { <<"0","2">>, <<"5">>, <<"1","3">> }
OtherDateTexts == { <<"2","0","2","5","-","0","2","-","3","0">>, <<"2","0","2","5","-","2","-","3">>, <<"d","e","z"," ","3","1",","," ","2","0","2","4">>, <<"3","1"," ","d","e","z"," ","2","0","2","4">>, <<"s","e","m"," ","d","a","t","a">>, <<" "," ">>, <<"3"," ","d","i","a","s">>, << >> }

DateText(shape, day, month, year, text) ==
    [shape |-> shape, day |-> day, month |-> month, year |-> year, text |-> text]

DateTexts ==
    { DateText("pt", d, m, y, Some(l \o d \o <<" ">> \o de \o <<" ">> \o m \o <<" ">> \o de \o <<" ">> \o y)) :
         l \in Leads, d \in PtDays, m \in PtMonths, y \in PtYears }
      \cup { DateText("slash", d, m, y, Some(d \o <<"/">> \o m \o <<"/">> \o y)) :
                d \in SlashDays, m \in SlashMonths, y \in { <<"2","0","2","5">> } }
      \cup { DateText("other", << >>, << >>, << >>, Some(t)) : t \in OtherDateTexts }
      \cup { DateText("other", << >>, << >>, << >>, None) }

\* The days on which the call is made.
CallDays == { <<2025, 1, 10>>, <<2025, 4, 30>>, <<2025, 5, 31>> }

\* parse_date_any on any text, on any day.
InitParseDate ==
    /\ USE_SELENIUM_FALLBACK = FALSE
    /\ request = [query |-> <<"a","b">>, exclude_marketplaces |-> TRUE,
                  min_days |-> 0, min_active_ads |-> 0]
    /\ pc = "parse_date_call"
    /\ results = << >>
    /\ Quiescent
    /\ NoTasks
    /\ score_args = << None, None, None >>
    /\ score_ret = None
    /\ call_args \in { [date_text |-> x.text, fields |-> x, today |-> t] :
                          x \in DateTexts, t \in CallDays }
    /\ call_ret = << >>

NextParseDate == CallParseDateAny

ParseDateSpec == InitParseDate /\ [][NextParseDate]_vars

\* The pages scrape_ads is run on.  The container at position i of a page carries an
\* advertiser link that depends on i (an Ads Library page with an id, one without,
\* another site, none), fails to extract when i is in `bad`, and makes the advertiser
\* lookup raise as `how` says when i is in `at`.
MaxPageFragments == 52    \* containers found on the largest page
PageSizes == { 0, 1, LOOKUP_PREFIX, LOOKUP_PREFIX + 3, MAX_ADS, MaxPageFragments }

AdvertiserUrls ==
    << Some(facebook_com \o <<"/","4","2","/">>),
       Some(facebook_com \o <<"/","l","o","j","a">>),
       Some(<<"l","o","j","a",".","c","o","m","/","7">>),
       None >>

CountTexts ==
    << <<"~","7"," ","r","e","s","u","l","t","s">>,
       <<"1",".","2","0","4"," ","r","e","s","u","l","t","a","d","o","s">>,
       <<"r","e","s","u","l","t","a","d","o","s">>,
       <<"5","0","0">>,
       <<"0"," ","a","d","s">> >>

BadFragments == { {}, {0}, {1, LOOKUP_PREFIX + 1}, {MAX_ADS - 1, MAX_ADS} }
RaisingLookups == { {}, {0}, {4, LOOKUP_PREFIX + 2} }
LookupOutcomes == { "new_page_raises", "goto_raises", "query_raises" }

PageOf(n, bad, at, how, shift) ==
    [ k \in 1..n |->
        [ extracts |-> (k - 1) \notin bad,
          advertiser_url |-> AdvertiserUrls[((k - 1) % Len(AdvertiserUrls)) + 1],
          lookup |-> IF (k - 1) \in at THEN how ELSE "ok",
          count_text |-> CountTexts[((k - 1 + shift) % Len(CountTexts)) + 1] ] ]

ScrapePages ==
    { PageOf(n, bad, at, how, shift) :
        n \in PageSizes, bad \in BadFragments, at \in RaisingLookups,
        how \in LookupOutcomes, shift \in { 0, 1, 3 } }

\* The loop of scrape_ads, of either browser backend, on any of these pages.
InitScrape ==
    /\ USE_SELENIUM_FALLBACK = FALSE
    /\ request = [query |-> <<"a","b">>, exclude_marketplaces |-> TRUE,
                  min_days |-> 0, min_active_ads |-> 0]
    /\ pc = "scrape_loop"
    /\ results = << >>
    /\ Quiescent
    /\ NoTasks
    /\ score_args = << None, None, None >>
    /\ score_ret = None
    /\ call_args \in [ backend : { "playwright", "selenium" }, page : ScrapePages ]
    /\ call_ret = << >>

NextScrape ==
    \/ ProcessFragment
    \/ ReturnBatch

ScrapeSpec == InitScrape /\ [][NextScrape]_vars

\* Containers handed to extract_ad_data: what each headline selector and each date
\* selector gives, and whether the container breaks the extraction as a whole.
HeadlineTexts ==
    { <<"P","r","o","m","o">>, <<" ","O","f","e","r","t","a"," ","1"," ">>,
      <<"A","d",":"," ","a","b">>, <<" "," ">> }
HeadlineOutcomes == { NoElement, SelectorRaises } \cup { Element(t) : t \in HeadlineTexts }
LastHeadlineOutcomes == { NoElement, Element(<<"L","i","q","u","i","d","a">>) }

DateOutcomes ==
    { << NoElement, NoElement, NoElement, NoElement >>,
      << Element(<<"s","e","m"," ","d","a","t","a">>), Element(<<"5","/","0","2","/","2","0","2","5">>),
         Element(<<"1","3","/","5","/","2","0","2","5">>), NoElement >>,
      << Element(<< >>), NoElement, Element(<<"3","1","/","0","2","/","2","0","2","5">>), NoElement >>,
      << SelectorRaises, Element(<<"5","/","0","2","/","2","0","2","5">>), NoElement, NoElement >>,
      << NoElement, Element(<<"3"," ","d","i","a","s">>), NoElement,
         Element(<<"d","e","z"," ","3","1",","," ","2","0","2","4">>) >>,
      << Element(<<"i","n","i","c","i","o","u"," ","e","m"," ","4"," ","d","e"," ","m","a","r","ç","o",
                   " ","d","e"," ","2","0","2","5">>), NoElement, NoElement, NoElement >> }

Containers ==
    [ headlines : { << a, b, c, d >> : a \in HeadlineOutcomes, b \in HeadlineOutcomes,
                                         c \in HeadlineOutcomes, d \in LastHeadlineOutcomes },
      dates : DateOutcomes,
      broken : BOOLEAN ]

\* extract_ad_data, of either browser backend, on any of these containers.
InitExtract ==
    /\ USE_SELENIUM_FALLBACK = FALSE
    /\ request = [query |-> <<"a","b">>, exclude_marketplaces |-> TRUE,
                  min_days |-> 0, min_active_ads |-> 0]
    /\ pc = "extract_call"
    /\ results = << >>
    /\ Quiescent
    /\ NoTasks
    /\ score_args = << None, None, None >>
    /\ score_ret = None
    /\ call_args \in [ backend : { "playwright", "selenium" }, ad_element : Containers,
                       today : { <<2025, 1, 10>>, <<2025, 5, 31>> } ]
    /\ call_ret = << >>

NextExtract == CallExtractAdData

ExtractSpec == InitExtract /\ [][NextExtract]_vars

\* The records a task's page yields, and the pages: at most MaxTaskFragments records.
MaxTaskFragments == 1    \* ad containers on the page of one of two concurrent requests
TaskAds == { ad \in BuiltAds : TruthyStr(ad.landing_url) /\ ad.days_active > 0 }
TaskPages == UNION { [1..k -> TaskAds] : k \in 0..MaxTaskFragments }
TaskRequests ==
    { r \in SearchRequests({ <<"a","b">> }) : r.min_days = 0 /\ r.min_active_ads = 0 }

NewTask(req, page) ==
    [ request |-> req, pc |-> "scrape", page |-> page, ads_data |-> << >>,
      results |-> << >>, returned |-> << >>, response |-> NoResponse ]

\* Two /search requests whose tasks the event loop runs together, from the moment
\* both have their browser and start on a page of results.
InitConcurrent ==
    /\ USE_SELENIUM_FALLBACK = FALSE
    /\ request = [query |-> <<"a","b">>, exclude_marketplaces |-> TRUE,
                  min_days |-> 0, min_active_ads |-> 0]
    /\ pc = "tasks"
    /\ results = << >>
    /\ Quiescent
    /\ score_args = << None, None, None >>
    /\ score_ret = None
    /\ NoCall
    /\ heap = << >>
    /\ tasks \in { << NewTask(r1, p1), NewTask(r2, p2) >> :
                     r1 \in TaskRequests, r2 \in TaskRequests,
                     p1 \in TaskPages, p2 \in TaskPages }

NextConcurrent ==
    \/ \E t \in DOMAIN tasks : TaskBuild(t)
    \/ \E t \in DOMAIN tasks : TaskScore(t)
    \/ \E t \in DOMAIN tasks : TaskRespond(t)
    \/ \E t \in DOMAIN tasks : TaskSerialize(t)

ConcurrentSpec == InitConcurrent /\ [][NextConcurrent]_vars

-----------------------------------------------------------------------------
(* Properties of the result pipeline (PipelineSpec) *)

Responded == pc \in {"done", "rerun_done"} /\ response.kind = "list"
Output == response.items

\* Position in the pipeline's input of the record with identity id.
InputPos(id) == CHOOSE k \in 1..Len(pipeline_in) : pipeline_in[k].id = id
InOutput(id) == \E i \in 1..Len(Output) : Output[i].id = id

\* The claims' own reading of "the landing URL classifies as marketplace": the URL is
\* present and its lowercased text contains a deny-list substring.
OnDenyList(url) ==
    /\ url # None
    /\ \E m \in marketplaces : Contains(Lower(Value(url)), m)

PassesThresholds(ad) ==
    /\ ad.days_active >= request.min_days
    /\ ad.advertiser_active_ads_est >= request.min_active_ads

\* C1: the list the pipeline returns is ordered by descending score, then by
\* descending days_active, and two records equal on both keep the relative order
\* they had in the pipeline's input.
C1_SortedDescStable ==
    Responded =>
        \A i, j \in 1..Len(Output) :
            i < j =>
                LET x == Output[i].ad
                    y == Output[j].ad
                IN  /\ x.score >= y.score
                    /\ x.score = y.score => x.days_active >= y.days_active
                    /\ (x.score = y.score /\ x.days_active = y.days_active)
                          => InputPos(Output[i].id) < InputPos(Output[j].id)

\* C1 witness: the pipeline moved a record with more days_active in front of an
\* equally scored one that preceded it in the input.
C1_Witness ==
    /\ pc = "done" /\ response.kind = "list" /\ Len(Output) = 2
    /\ Output[1].ad.score = Output[2].ad.score
    /\ Output[1].ad.days_active > Output[2].ad.days_active
    /\ InputPos(Output[1].id) > InputPos(Output[2].id)

\* C2: a record of the input is in the output if and only if it is a marketplace
\* record under exclude_marketplaces or it passes both thresholds.
C2_KeptIff ==
    Responded =>
        \A k \in 1..Len(pipeline_in) :
            InOutput(pipeline_in[k].id)
              <=> \/ request.exclude_marketplaces
                       /\ is_marketplace(pipeline_in[k].ad.landing_url)
                  \/ PassesThresholds(pipeline_in[k].ad)

\* C2 witness: one record was dropped for days_active < min_days while a marketplace
\* record failing a threshold was kept.
C2_Witness ==
    /\ pc = "done" /\ response.kind = "list"
    /\ \E k \in 1..Len(pipeline_in) :
         /\ ~is_marketplace(pipeline_in[k].ad.landing_url)
         /\ pipeline_in[k].ad.days_active < request.min_days
         /\ ~InOutput(pipeline_in[k].id)
    /\ \E k \in 1..Len(pipeline_in) :
         /\ is_marketplace(pipeline_in[k].ad.landing_url)
         /\ ~PassesThresholds(pipeline_in[k].ad)
         /\ InOutput(pipeline_in[k].id)

\* C3: with exclusion_reason absent on entry, an output record carries
\* exclusion_reason "Marketplace" exactly when exclude_marketplaces is set and its
\* landing URL is on the deny-list; such a record is kept whatever the thresholds,
\* and every other output record has no exclusion_reason.
C3_MarketplaceAnnotated ==
    Responded =>
        /\ \A i \in 1..Len(Output) :
              IF request.exclude_marketplaces /\ OnDenyList(Output[i].ad.landing_url)
              THEN Output[i].ad.exclusion_reason = Some("Marketplace")
              ELSE Output[i].ad.exclusion_reason = None
        /\ \A k \in 1..Len(pipeline_in) :
              request.exclude_marketplaces /\ OnDenyList(pipeline_in[k].ad.landing_url)
                 => InOutput(pipeline_in[k].id)

\* C3 witness: a marketplace record below a threshold is in the output, annotated,
\* next to a record that is not annotated.
C3_Witness ==
    /\ pc = "done" /\ response.kind = "list"
    /\ \E i \in 1..Len(Output) :
         /\ Output[i].ad.exclusion_reason = Some("Marketplace")
         /\ ~PassesThresholds(Output[i].ad)
    /\ \E i \in 1..Len(Output) : Output[i].ad.exclusion_reason = None

\* C4: every output record's score is compute_score of its own fields, whatever
\* score it carried on entry.
C4_ScoreRecomputed ==
    Responded =>
        \A i \in 1..Len(Output) :
            Output[i].ad.score =
                compute_score(Some(Output[i].ad.advertiser_active_ads_est),
                              Some(Output[i].ad.days_active),
                              Some(Output[i].ad.variations_count))

\* C4 witness: an output record entered with a score that was not its computed one.
C4_Witness ==
    /\ pc = "done" /\ response.kind = "list"
    /\ \E i \in 1..Len(Output) :
         /\ pipeline_in[InputPos(Output[i].id)].ad.score = 9999
         /\ Output[i].ad.score # 9999

\* C5: the pipeline run on its own output, with the same options, returns that
\* output: same records, same field values, same order.
C5_Idempotent == pc = "rerun_done" => rerun = Some(Output)

\* C5 witness: a rerun of an output of two records that the first run had reordered
\* and annotated.
C5_Witness ==
    /\ pc = "rerun_done"
    /\ Len(Output) = 2
    /\ InputPos(Output[1].id) > InputPos(Output[2].id)
    /\ \E i \in 1..2 : Output[i].ad.exclusion_reason = Some("Marketplace")

\* The URL is present and its lowercased text contains a dropshipping marker.
HasDropshippingMarker(url) ==
    /\ url # None
    /\ \E pattern \in dropshipping_patterns : Contains(Lower(Value(url)), pattern)

\* C20: a record that went through the enhancement step with a landing URL has
\* is_probable_dropshipping true exactly when the flag was true on entry or the
\* lowercased URL contains a dropshipping marker; a flag true on entry stays true,
\* and without a landing URL the flag is what it was on entry.
C20_DropshippingFlag ==
    Responded =>
        \A i \in 1..Len(Output) :
            LET after == Output[i].ad
                before == pipeline_in[InputPos(Output[i].id)].ad
            IN  /\ before.landing_url # None
                      => (after.is_probable_dropshipping
                            <=> \/ before.is_probable_dropshipping
                                \/ HasDropshippingMarker(before.landing_url))
                /\ before.is_probable_dropshipping => after.is_probable_dropshipping
                /\ before.landing_url = None
                      => after.is_probable_dropshipping = before.is_probable_dropshipping

\* C20 witness: one record entered unflagged with a shop URL and left flagged, next
\* to one that entered flagged with a URL that has no marker and stayed flagged.
C20_Witness ==
    /\ pc = "done" /\ response.kind = "list"
    /\ \E i \in 1..Len(Output) :
         /\ ~pipeline_in[InputPos(Output[i].id)].ad.is_probable_dropshipping
         /\ Output[i].ad.landing_url = Some(UrlShop)
         /\ Output[i].ad.is_probable_dropshipping
    /\ \E i \in 1..Len(Output) :
         /\ pipeline_in[InputPos(Output[i].id)].ad.is_probable_dropshipping
         /\ ~HasDropshippingMarker(Output[i].ad.landing_url)
         /\ Output[i].ad.landing_url # None
         /\ Output[i].ad.is_probable_dropshipping

\* The identities of what filter_results returns inside the pipeline, before the sort.
Filtered == Ids(filter_results(enhance_results(pipeline_in), request))

\* The fields of a record other than score, is_probable_dropshipping and
\* exclusion_reason.
Untouched(ad) ==
    << ad.landing_url, ad.days_active, ad.variations_count, ad.advertiser_active_ads_est >>

\* C28: the pipeline's output is a sub-collection of its input, with no record added
\* or duplicated; filter_results keeps the relative order of the records it keeps; and
\* the only fields the pipeline changes are score, is_probable_dropshipping and
\* exclusion_reason.
C28_PipelineFrame ==
    Responded =>
        /\ \A i \in 1..Len(Output) :
              /\ \E k \in 1..Len(pipeline_in) : pipeline_in[k].id = Output[i].id
              /\ Untouched(Output[i].ad) = Untouched(pipeline_in[InputPos(Output[i].id)].ad)
        /\ \A i, j \in 1..Len(Output) : i # j => Output[i].id # Output[j].id
        /\ LET kept == Filtered
           IN  /\ Len(kept) = Len(Output)
               /\ \A i, j \in 1..Len(kept) :
                     i < j => InputPos(kept[i]) < InputPos(kept[j])

\* C28 witness: of two records one is dropped and the other, a marketplace record, is
\* returned with its score and exclusion_reason rewritten and the rest as it came.
C28_Witness ==
    /\ pc = "done" /\ response.kind = "list"
    /\ Len(pipeline_in) = 2 /\ Len(Output) = 1
    /\ Output[1].ad.exclusion_reason # pipeline_in[InputPos(Output[1].id)].ad.exclusion_reason
    /\ Output[1].ad.score # pipeline_in[InputPos(Output[1].id)].ad.score
    /\ Untouched(Output[1].ad) = Untouched(pipeline_in[InputPos(Output[1].id)].ad)

-----------------------------------------------------------------------------
(* Properties of the /search handler (Spec) *)

\* C6: whenever the acquisition met a CAPTCHA, at the initial check or during the
\* navigation, the response is the "blocked" shape and never the empty list of a
\* successful search.
C6_CaptchaIsBlocked ==
    pc = "done" /\ captcha_seen # "no" => response = BlockedResponse

\* C7: when the acquisition failed with a lower-level error and no fallback is
\* configured, the request ends in HTTP 500 and never in a successful list.
C7_FailureIsServerError ==
    pc = "done" /\ acq_error /\ ~USE_SELENIUM_FALLBACK => response = ErrorResponse(500)

\* C8: a query that is empty or shorter than 2 characters once trimmed is answered
\* with HTTP 400, and no acquisition backend is invoked for it.
C8_ShortQueryRejected ==
    Len(Strip(request.query)) < 2 =>
        /\ backend_calls = 0
        /\ browser = "none"
        /\ pc = "done" => response = ErrorResponse(400)

\* C8 witness: a request whose query is two or more characters long, but fewer than
\* two once trimmed, has been answered.
C8_Witness ==
    /\ pc = "done"
    /\ Len(request.query) >= 2
    /\ Len(Strip(request.query)) < 2
    /\ response.status = 400

-----------------------------------------------------------------------------
(* Properties of compute_score (ScoreSpec) *)

\* round(100 * (0.5*A/50 + 0.3*D/60 + 0.2*tanh(V/5)), 2), in hundredths
ScoreFormula(A, D, V) == Round2((100 * A + 50 * D) * 500 + safe_tanh(V))

ClampedActive(a) == IF a = None \/ Value(a) < 0 THEN 0 ELSE IF Value(a) > 50 THEN 50 ELSE Value(a)
ClampedDays(d) == IF d = None \/ Value(d) < 0 THEN 0 ELSE IF Value(d) > 60 THEN 60 ELSE Value(d)
AtLeastOne(v) == IF v = None \/ Value(v) < 1 THEN 1 ELSE Value(v)

\* C9: for integer or null arguments compute_score returns the formula's value on
\* A = clamp(active, 0, 50), D = clamp(days, 0, 60), V = max(1, variations), null
\* counting as 0, 0 and 1; compute_score(0, 0, 1) is round(20 * tanh(0.2), 2) = 3.95.
C9_ScoreFormula ==
    pc = "score_done" =>
        /\ Value(score_ret) = ScoreFormula(ClampedActive(score_args[1]),
                                           ClampedDays(score_args[2]),
                                           AtLeastOne(score_args[3]))
        /\ score_args = << Some(0), Some(0), Some(1) >> => Value(score_ret) = 395

\* C9 witness: a call with a null active, a days above 60 and a variations below 1
\* has returned.
C9_Witness ==
    /\ pc = "score_done"
    /\ score_args[1] = None
    /\ score_args[2] # None /\ Value(score_args[2]) > 60
    /\ score_args[3] # None /\ Value(score_args[3]) < 1
    /\ Value(score_ret) = 3395

NonNegative(x) == x # None /\ Value(x) >= 0

\* C10: for non-negative arguments the score lies in [0, 100].
C10_ScoreInRange ==
    (pc = "score_done" /\ \A k \in 1..3 : NonNegative(score_args[k]))
        => (Value(score_ret) >= 0 /\ Value(score_ret) <= 10000)

\* C10 witness: arguments above both clamps and a large variations count reach 100.
C10_Witness ==
    /\ pc = "score_done"
    /\ \A k \in 1..3 : NonNegative(score_args[k])
    /\ Value(score_args[1]) > 50 /\ Value(score_args[2]) > 60
    /\ Value(score_ret) = 10000

\* Amounts by which one argument is raised: the next integer, a jump across a clamp
\* limit, and a jump far beyond every limit.
Raises == {1, 15, 500}

\* C11: for non-negative arguments, raising any one of the three arguments while the
\* other two are held fixed never lowers the rounded score.
C11_Monotone ==
    (pc = "score_done" /\ \A k \in 1..3 : NonNegative(score_args[k]))
        => LET a == Value(score_args[1])
               d == Value(score_args[2])
               v == Value(score_args[3])
           IN  \A r \in Raises :
                  /\ Value(score_ret) <= compute_score(Some(a + r), Some(d), Some(v))
                  /\ Value(score_ret) <= compute_score(Some(a), Some(d + r), Some(v))
                  /\ Value(score_ret) <= compute_score(Some(a), Some(d), Some(v + r))

\* C11 witness: a call whose score rises with one more active ad and with one more
\* variation, and stays the same with one more day because days_active is at its cap.
C11_Witness ==
    /\ pc = "score_done"
    /\ score_args = << Some(10), Some(60), Some(3) >>
    /\ Value(score_ret) < compute_score(Some(11), Some(60), Some(3))
    /\ Value(score_ret) < compute_score(Some(10), Some(60), Some(4))
    /\ Value(score_ret) = compute_score(Some(10), Some(61), Some(3))

-----------------------------------------------------------------------------
(* Properties of days_between (DaysBetweenSpec) *)

\* A string of exactly the shape dddd-dd-dd.
IsCanonicalShape(t) ==
    /\ Len(t) = 10
    /\ t[5] = "-" /\ t[8] = "-"
    /\ \A i \in {1, 2, 3, 4, 6, 7, 9, 10} : IsDigit(t[i])

CanonicalFields(t) ==
    << ToInt(SubSeq(t, 1, 4)), ToInt(SubSeq(t, 6, 7)), ToInt(SubSeq(t, 9, 10)) >>

\* A valid YYYY-MM-DD date: the canonical shape, naming a day of the calendar.
IsCanonicalDate(t) ==
    /\ IsCanonicalShape(t)
    /\ ValidDate(CanonicalFields(t)[1], CanonicalFields(t)[2], CanonicalFields(t)[3])

DaysSince(dt, ref) == Max(0, toordinal(ref) - toordinal(dt))

\* C12 as stated: days_between returns max(0, reference - date) for a valid
\* YYYY-MM-DD string and 0 for an absent, empty or any other string; it is never
\* negative. (It always returns: the model's days_between is total.)
C12_DaysBetweenCanonical ==
    pc = "days_between_done" =>
        LET x == call_args.date_str
            r == call_ret[1]
        IN  /\ r >= 0
            /\ IF x # None /\ IsCanonicalDate(Value(x))
               THEN r = DaysSince(CanonicalFields(Value(x)), call_args.today)
               ELSE r = 0

\* The three '-'-separated fields of a string with exactly two '-'.
DashPositions(t) == { i \in 1..Len(t) : t[i] = "-" }
FirstDash(t) == CHOOSE i \in DashPositions(t) : \A j \in DashPositions(t) : i <= j
LastDash(t) == CHOOSE i \in DashPositions(t) : \A j \in DashPositions(t) : i >= j
YearField(t) == SubSeq(t, 1, FirstDash(t) - 1)
MonthField(t) == SubSeq(t, FirstDash(t) + 1, LastDash(t) - 1)
DayField(t) == SubSeq(t, LastDash(t) + 1, Len(t))

AllDigits(f) == \A i \in 1..Len(f) : IsDigit(f[i])

\* A date written year-month-day with a four-digit year and a month and a day of one
\* or two digits; a one-digit day may be preceded by a space.
IsYearMonthDay(t) ==
    /\ Cardinality(DashPositions(t)) = 2
    /\ Len(YearField(t)) = 4 /\ AllDigits(YearField(t))
    /\ Len(MonthField(t)) \in {1, 2} /\ AllDigits(MonthField(t))
    /\ \/ Len(DayField(t)) \in {1, 2} /\ AllDigits(DayField(t))
       \/ Len(DayField(t)) = 2 /\ DayField(t)[1] = " " /\ IsDigit(DayField(t)[2])

YearMonthDay(t) ==
    << ToInt(YearField(t)), ToInt(MonthField(t)), ToInt(SelectSeq(DayField(t), IsDigit)) >>

IsLooseDate(t) ==
    /\ IsYearMonthDay(t)
    /\ ValidDate(YearMonthDay(t)[1], YearMonthDay(t)[2], YearMonthDay(t)[3])

\* C12 amended: days_between returns max(0, reference - date) for every string that
\* writes a day of the calendar as year-month-day, zero-padded or not, and 0 for an
\* absent, empty or any other string; it is never negative.
\* days_between("2025-01-01", 2025-01-10) is 9 and days_between("2099-01-01", .) is 0.
C12_DaysBetween ==
    pc = "days_between_done" =>
        LET x == call_args.date_str
            r == call_ret[1]
        IN  /\ r >= 0
            /\ IF x # None /\ IsLooseDate(Value(x))
               THEN r = DaysSince(YearMonthDay(Value(x)), call_args.today)
               ELSE r = 0
            /\ (x = Some(<<"2","0","2","5","-","0","1","-","0","1">>) /\ call_args.today = <<2025, 1, 10>>) => r = 9
            /\ (x = Some(<<"2","0","2","4","-","0","2","-","2","9">>) /\ call_args.today = <<2025, 3, 1>>) => r = 366
            /\ x = Some(<<"2","0","9","9","-","0","1","-","0","1">>) => r = 0

\* C12 witness: a leap day written without zero padding, one year and a day before
\* the reference date.
C12_Witness ==
    /\ pc = "days_between_done"
    /\ call_args.date_str = Some(<<"2","0","2","4","-","2","-","2","9">>)
    /\ call_args.today = <<2025, 3, 1>>
    /\ call_ret = << 366 >>

-----------------------------------------------------------------------------
(* Properties of normalize_text (NormalizeSpec) *)

\* C13: normalize_text applied to its own result returns that result, for every
\* text, texts that mix whitespace and control characters included.
C13_NormalizeIdempotent == pc = "normalize_twice" => call_ret[2] = call_ret[1]

\* C14: the string normalize_text returns has no control character, no two
\* consecutive spaces and no leading or trailing space; for an absent or empty
\* text it is the empty string.
C14_NormalizedShape ==
    pc \in {"normalize_done", "normalize_twice"} =>
        LET r == call_ret[1]
        IN  /\ \A i \in 1..Len(r) : r[i] \notin ControlChars
            /\ \A i \in 1..(Len(r) - 1) : ~(r[i] = " " /\ r[i + 1] = " ")
            /\ r # << >> => (r[1] # " " /\ r[Len(r)] # " ")
            /\ ~TruthyStr(call_args.text) => r = << >>

-----------------------------------------------------------------------------
(* Properties of clean_headline (HeadlineSpec) *)

IsKnownPrefixOf(i, s) == StartsWith(s, prefixes_to_remove[i])

\* The text less the known prefix it starts with, trimmed; the text itself when it
\* starts with none. (No known prefix is a prefix of another.)
LessLeadingPrefix(s) ==
    IF \E i \in PrefixIds : IsKnownPrefixOf(i, s)
    THEN LET i == CHOOSE k \in PrefixIds : IsKnownPrefixOf(k, s)
         IN  Strip(SubSeq(s, Len(prefixes_to_remove[i]) + 1, Len(s)))
    ELSE s

\* C15 as stated: clean_headline strips only the known prefix the text starts with;
\* a known prefix that then starts the remaining text is left in place; the result
\* is the normalize_text of what remains.
C15_AtMostOnePrefix ==
    (pc = "headline_done" /\ TruthyStr(call_args.headline)) =>
        LET h == Value(call_args.headline)
        IN  /\ call_ret[1] = normalize_text(Some(LessLeadingPrefix(h)))
            /\ \A j \in PrefixIds :
                  IsKnownPrefixOf(j, LessLeadingPrefix(h)) => IsKnownPrefixOf(j, call_ret[1])

\* C15 amended: clean_headline tests the known prefixes once each, in the order
\* Anuncio, Ad:, Sponsored:, Patrocinado:, and strips and trims each one that starts
\* the text when its turn comes. A known prefix uncovered by a removal is therefore
\* stripped as well when it comes later in that order, and is left in place when it
\* is the same prefix or an earlier one. The result is the normalize_text of what
\* remains; an absent or empty headline gives the empty string.
C15_EachPrefixOnce ==
    pc = "headline_done" =>
        LET run == call_args.run
            body == call_args.body
            r == call_ret[1]
        IN  /\ ~TruthyStr(call_args.headline) => r = << >>
            /\ Len(run) <= 1 => r = normalize_text(Some(body))
            /\ (Len(run) = 2 /\ run[1] < run[2]) => r = normalize_text(Some(body))
            /\ (Len(run) = 2 /\ run[1] >= run[2])
                  => r = normalize_text(Some(BuildHeadline(<< run[2] >>, call_args.sep, body)))
            /\ TruthyStr(call_args.headline)
                  => r = normalize_text(Some(
                           RemovePrefix(RemovePrefix(RemovePrefix(RemovePrefix(
                               Value(call_args.headline),
                               prefixes_to_remove[1]), prefixes_to_remove[2]),
                               prefixes_to_remove[3]), prefixes_to_remove[4])))

\* C15 witness: a headline that starts with "Anuncio" followed by "Ad:" came back
\* with both prefixes removed.
C15_Witness ==
    /\ pc = "headline_done"
    /\ call_args.run = << 1, 2 >>
    /\ call_args.sep = << " " >>
    /\ call_args.body = <<"O","f","e","r","t","a">>
    /\ call_ret = << <<"O","f","e","r","t","a">> >>

-----------------------------------------------------------------------------
(* Properties of estimate_variations_from_text (VariationsSpec) *)

\* The positions in the text's phrases of the cues for a pattern.
CuePositions(run, pattern) == { k \in 1..Len(run) : Cues[run[k]].pattern = pattern }
HasCue(run) == \E k \in 1..Len(run) : Cues[run[k]].pattern > 0

\* The pattern of highest priority (least number) that has a cue in the text, and the
\* number written in its cue (in the leftmost one when it has several).
WinningPattern(run) == LeastOf({ Cues[run[k]].pattern : k \in 1..Len(run) } \ {0})
WinningCount(run) == Cues[run[LeastOf(CuePositions(run, WinningPattern(run)))]].count

\* C16: estimate_variations_from_text returns an integer from 1 to 20: 20 when the
\* captured number is above 20, and 1 when the text is absent or holds no cue.
C16_VariationsInRange ==
    pc = "variations_done" =>
        /\ call_ret[1] \in 1..20
        /\ ~HasCue(call_args.cues) => call_ret[1] = 1
        /\ (HasCue(call_args.cues) /\ WinningCount(call_args.cues) > 20) => call_ret[1] = 20

\* C17 as stated: on a text with cues the result is the number captured by the
\* pattern of highest priority that matches, wherever its cue stands in the text
\* and in whatever case it is written.
C17_HighestPriorityNumber ==
    (pc = "variations_done" /\ HasCue(call_args.cues)) =>
        call_ret[1] = WinningCount(call_args.cues)

\* C17 amended: on a text with cues the result is the number captured by the
\* pattern of highest priority that matches, limited to 20, wherever its cue stands
\* in the text and in whatever case it is written.
C17_HighestPriorityWins ==
    (pc = "variations_done" /\ HasCue(call_args.cues)) =>
        call_ret[1] = Min(WinningCount(call_args.cues), 20)

\* C17 witness: "7 tamanhos 3cores" gave 3, the number of the cue that comes second
\* in the text and first in priority.
C17_Witness ==
    /\ pc = "variations_done"
    /\ Len(call_args.cues) = 2
    /\ Cues[call_args.cues[1]].pattern = 4
    /\ Cues[call_args.cues[2]].pattern = 3
    /\ Cues[call_args.cues[2]].count = 3
    /\ call_ret = << 3 >>

-----------------------------------------------------------------------------
(* Properties of parse_date_any (ParseDateSpec) *)

\* C18: parse_date_any returns either nothing or a string of the shape YYYY-MM-DD
\* that names a day of the calendar. (It always returns: the model's parse_date_any
\* is total.)
C18_ValidDateOrAbsent ==
    pc = "parse_date_done" =>
        \/ call_ret[1] = None
        \/ IsCanonicalDate(Value(call_ret[1]))

InMonthTable(word) == \E k \in 1..Len(meses_pt) : meses_pt[k][1] = Lower(word)

\* C19: for a text 'dd de <mes> de yyyy', alone or after a lead, whose month word is
\* in the Portuguese month table, parse_date_any returns yyyy-mm-dd with mm the
\* table's number of the month word, on whatever day it is called.
C19_PortugueseMonth ==
    (/\ pc = "parse_date_done"
     /\ call_args.fields.shape = "pt"
     /\ InMonthTable(call_args.fields.month))
        => call_ret[1] = Some(call_args.fields.year \o <<"-">>
                                \o MesesGet(Lower(call_args.fields.month)) \o <<"-">>
                                \o zfill2(call_args.fields.day))

-----------------------------------------------------------------------------
(* Properties of the loop of scrape_ads (ScrapeSpec) *)

\* The lookups made so far, and the positions they were made for.
LookupsMade == { call_ret[k] : k \in 1..Len(call_ret) }
LookedUp == { l.fragment : l \in LookupsMade }

\* C21: in every batch of scrape_ads, of either browser backend, each record's
\* advertiser_active_ads_est is an integer from 0 to 500, the advertiser lookup is made
\* only for containers at positions 0 to 9, and every record built from a container
\* at position 10 or later has advertiser_active_ads_est = 0.
C21_LookupPrefix ==
    pc \in {"scrape_loop", "scrape_done"}
    => /\ \A k \in 1..Len(ads_data) :
            /\ ads_data[k].advertiser_active_ads_est \in 0..500
            /\ ads_data[k].fragment >= LOOKUP_PREFIX
               => ads_data[k].advertiser_active_ads_est = 0
       /\ \A i \in LookedUp : i \in 0..(LOOKUP_PREFIX - 1)

\* A batch is returned in which a lookup read a count above 500 and its record holds
\* 500, a lookup was made at position 8, and a record from position 12, whose
\* advertiser has an Ads Library page with a count, holds 0.
C21_Witness ==
    /\ pc = "scrape_done"
    /\ \E k \in 1..Len(ads_data) :
         /\ ads_data[k].advertiser_active_ads_est = 500
         /\ ToInt(CountNumbers(call_args.page[ads_data[k].fragment + 1].count_text)[1]) > 500
    /\ LOOKUP_PREFIX - 2 \in LookedUp
    /\ \E k \in 1..Len(ads_data) :
         /\ ads_data[k].fragment = LOOKUP_PREFIX + 2
         /\ ads_data[k].advertiser_url = AdvertiserUrls[1]
         /\ call_args.page[LOOKUP_PREFIX + 3].lookup = "ok"
         /\ CountNumbers(call_args.page[LOOKUP_PREFIX + 3].count_text) # << >>
         /\ ads_data[k].advertiser_active_ads_est = 0


\* The positions scrape_ads goes over, those whose extraction gives a record, and those
\* whose advertiser lookup raised.
Considered == 0..(Len(Batch(call_args.page)) - 1)
Extracted == { i \in Considered : call_args.page[i + 1].extracts }
LookupRaised == { l.fragment : l \in { m \in LookupsMade : m.did.raised } }

\* The positions the records of the batch were built from, in batch order.
RecordFragments == [k \in 1..Len(ads_data) |-> ads_data[k].fragment]
InFragmentOrder ==
    \A j, k \in 1..Len(ads_data) : j < k => RecordFragments[j] < RecordFragments[k]
FragmentsWithRecord == { RecordFragments[k] : k \in 1..Len(ads_data) }

\* C22 as stated: a container whose extraction or advertiser lookup fails gives no
\* record, every other container among the first 50 whose extraction succeeds gives
\* exactly one, in container order, and the batch holds at most 50 records.
C22_FailedSkipped ==
    pc = "scrape_done"
    => /\ FragmentsWithRecord = Extracted \ LookupRaised
       /\ InFragmentOrder
       /\ Len(ads_data) <= MAX_ADS

\* C22: a container whose extraction fails gives no record and one whose advertiser
\* lookup raises keeps its record, with an estimate of 0; every container among the
\* first 50 whose extraction succeeds gives exactly one record, in container order,
\* and the batch holds at most 50 records.
C22_OneRecordEach ==
    pc = "scrape_done"
    => /\ FragmentsWithRecord = Extracted
       /\ InFragmentOrder
       /\ Len(ads_data) <= MAX_ADS
       /\ \A k \in 1..Len(ads_data) :
            ads_data[k].fragment \in LookupRaised
            => ads_data[k].advertiser_active_ads_est = 0

\* A batch is returned from a page of more than 50 containers, two of whose
\* extractions failed, one of them among the first 50, and one of whose lookups raised.
C22_Witness ==
    /\ pc = "scrape_done"
    /\ Len(call_args.page) > MAX_ADS
    /\ Extracted # Considered
    /\ \E k \in 1..Len(call_args.page) : k > MAX_ADS /\ ~call_args.page[k].extracts
    /\ LookupRaised # {}
    /\ Len(ads_data) = MAX_ADS - 1


-----------------------------------------------------------------------------
(* Properties of extract_ad_data (ExtractSpec) *)

\* C23: every record extract_ad_data returns has days_active >= 0, has days_active = 0
\* when start_date is absent, and when start_date is present has days_active equal to
\* days_between(start_date) on the day the record was built.
C23_DaysActive ==
    pc = "extract_done" /\ call_ret[1] # None
    => LET ad == Value(call_ret[1])
       IN  /\ ad.days_active >= 0
           /\ IsNone(ad.start_date) => ad.days_active = 0
           /\ ~IsNone(ad.start_date)
              => ad.days_active = days_between(ad.start_date, call_args.today)

\* A record is built whose second date selector gave the first readable date,
\* 5/02/2025, 115 days before the day of the call.
C23_Witness ==
    /\ pc = "extract_done"
    /\ call_ret[1] # None
    /\ call_args.ad_element.dates[1].kind = "text"
    /\ Value(call_ret[1]).start_date = Some(<<"2","0","2","5","-","0","2","-","0","5">>)
    /\ call_args.today = <<2025, 5, 31>>
    /\ Value(call_ret[1]).days_active = 115


\* The headline candidates of the container: the selectors that were asked, in
\* priority order, which are those before the first one whose browser call raised.
RaisingHeadlineSelectors ==
    { k \in 1..Len(call_args.ad_element.headlines) :
        call_args.ad_element.headlines[k].kind = "raises" }
HeadlineCandidates ==
    { k \in 1..Len(call_args.ad_element.headlines) :
        /\ call_args.ad_element.headlines[k].kind = "text"
        /\ \A r \in RaisingHeadlineSelectors : k < r }
LongCandidates ==
    { k \in HeadlineCandidates : Len(Strip(call_args.ad_element.headlines[k].text)) > 5 }

\* C26: in every browser backend the headline of a built record is clean_headline of
\* the first candidate, in priority order, whose trimmed text is longer than 5
\* characters; shorter candidates are passed over, and the headline stays absent when
\* no candidate qualifies.
C26_FirstLongHeadline ==
    pc = "extract_done" /\ call_ret[1] # None
    => Value(call_ret[1]).headline =
          IF LongCandidates = {} THEN None
          ELSE Some(clean_headline(
                      Some(call_args.ad_element.headlines[LeastOf(LongCandidates)].text)))


\* C24: a /search request with a negative min_days or min_active_ads is answered with
\* a client error, so that the options that reach filter_results have min_days >= 0
\* and min_active_ads >= 0.
C24_NegativeRejected ==
    /\ pipeline_in # << >> => request.min_days >= 0 /\ request.min_active_ads >= 0
    /\ pc = "done" /\ (request.min_days < 0 \/ request.min_active_ads < 0)
       => response.kind = "error" /\ response.status \in 400..499


\* C27: navigate_to_ads_library makes up to 3 attempts per call: once the call is
\* over, every attempt but the last ended in an error, and a last attempt that ended
\* in an error is the third.
C27_NavigationRetried ==
    pc \notin {"received", "launch", "initial_captcha", "navigate"} /\ nav_attempts # << >>
    => /\ Len(nav_attempts) <= 3
       /\ \A k \in 1..(Len(nav_attempts) - 1) : nav_attempts[k] = "raises"
       /\ nav_attempts[Len(nav_attempts)] = "raises" => Len(nav_attempts) = 3


\* C30: when buscar_criativos_facebook has returned, on whatever path, the browser it
\* launched is closed and the automation driver of that browser is stopped.
C30_BrowserClosed ==
    pc \in {"respond", "done"}
    => /\ browser \in {"none", "closed"}
       /\ browser = "closed" => playwright = "stopped"

-----------------------------------------------------------------------------
(* Properties of requests run together (ConcurrentSpec) *)

\* The objects a task holds: in its batch, in what the acquisition returned, and in
\* the list it returns.
Held(t) ==
    IdSet(tasks[t].ads_data) \cup IdSet(tasks[t].results) \cup IdSet(tasks[t].returned)

\* The response body of a request run alone on the page `page`.
AloneBody(req, page) ==
    LET returned == Pipeline(Sort(ScoreAndWrap(page)), req)
    IN  [k \in 1..Len(returned) |-> returned[k].ad]

\* C25: when two /search requests are run together and interleave at their awaits, no
\* record is held by both, and the response of each is the one it would give if it
\* ran alone on the same acquisition output.
C25_RequestsIsolated ==
    pc = "tasks"
    => /\ \A t, u \in DOMAIN tasks : t # u => Held(t) \cap Held(u) = {}
       /\ \A t \in DOMAIN tasks :
            tasks[t].pc = "done"
            => tasks[t].response = ListResponse(AloneBody(tasks[t].request, tasks[t].page))

\* C25 witness: both requests scraped the same marketplace record, the second one
\* first; the first request, with exclude_marketplaces, has answered with the record
\* annotated while the second, without it, is still leaving its browser, and the
\* second one's record carries no annotation.
C25_Witness ==
    /\ pc = "tasks"
    /\ tasks[1].pc = "done" /\ tasks[2].pc = "exit"
    /\ tasks[1].page = tasks[2].page
    /\ tasks[1].request.exclude_marketplaces /\ ~tasks[2].request.exclude_marketplaces
    /\ \E i \in Held(1), j \in Held(2) : j < i
    /\ \E k \in 1..Len(tasks[1].response.items) :
         tasks[1].response.items[k].exclusion_reason = Some("Marketplace")
    /\ \A j \in Held(2) : heap[j].exclusion_reason = None

====
